---------------------------- MODULE Spec2Model ----------------------------
(***************************************************************************)
(* Model of the cue sheet reader of cbae (class cdinfos, with cdtrack and  *)
(* cuetime): the line parser _cueParser, and loadCue with its post-parse   *)
(* checks and its byte layout pass over the track list.                    *)
(*                                                                         *)
(* A sheet line is a record of the pieces the parser's regular             *)
(* expressions look at:                                                    *)
(*   kw     the first word of the line, in the case it is written in       *)
(*   text   the argument of TITLE / PERFORMER / FILE, in its own case      *)
(*   quoted whether that argument is enclosed in double quotes             *)
(*   num    the digits of the number of TRACK / INDEX (<<>>: no digits)    *)
(*   type   the type token of FILE / TRACK, in its own case ("": absent)   *)
(*   m,s,f  the digits of the three fields of a timestamp                  *)
(* The sheet is read one line per step; the model picks each line when it  *)
(* is read, which is the same as picking the whole file beforehand.        *)
(***************************************************************************)
EXTENDS Integers, Sequences, FiniteSets, TLC

VARIABLES
    CD_ARTIST,   \* cdinfos.CD_ARTIST
    CD_TITLE,    \* cdinfos.CD_TITLE
    CD_SIZE,     \* cdinfos.CD_SIZE
    CD_FILE,     \* cdinfos.CD_FILE
    FILE_LOADED, \* cdinfos.FILE_LOADED (the input record, or NoInput)
    tracks,      \* cdinfos.tracks : sequence of cdtrack records
    opentrack,   \* cdinfos.opentrack : position in tracks of the referenced cdtrack, 0 = null
    openfile,    \* cdinfos.openfile : a file name or NULL
    pc,          \* where the caller of loadCue is: "new", "parsing", "loaded", "failed"
    input,       \* the argument of the running / last loadCue call
    lineNo,      \* loop counter l of loadCue: lines of the sheet consumed so far
    line,        \* the line handed to the last step of the loop
    err,         \* what the last loadCue call threw (kind "None": nothing)
    work,        \* loadCue calls made plus sheet lines consumed by the instance
    loaded,      \* TRUE once a loadCue call on the instance has returned normally
    fs,          \* the directory of the sheet as the layout pass found it:
                 \* file name -> size, or Missing
    queried,     \* the file names the last layout pass handed to FS.existsSync, in order
    tcase,       \* a cuetime object on its own, with the frame count it was set
                 \* from and what toFrames() returned for it
    readyFiles,  \* cdinfos.readyFiles : null, or the list of names
    template,    \* the template the last prepareFilenames call was given (arg)
                 \* and the one it worked with (used)
    newcue,      \* the lines the last buildCueFileForCBAE call returned
    APP,         \* cbae.js: how far the main script is (state) and APP.option
    queue,       \* APP.input : the inputs queueRun has not handed out yet
    qnow,        \* qnow of the encode action
    ELOG,        \* ELOG : inputs, success, error, skip, size0, size1
    task,        \* the taskEncodeCD call of the input being worked on
    disk,        \* the output directories made so far, oldest first
    info,        \* the info action on the loaded instance: the sizes it printed
                 \* and the FilePartSHA1 calls it made, in order
    sheet        \* the lines the running / last loadCue call has read so far
                 \* (recorded where a call is compared with a new instance)

vars == << CD_ARTIST, CD_TITLE, CD_SIZE, CD_FILE, FILE_LOADED, tracks, opentrack,
           openfile, pc, input, lineNo, line, err, work, loaded, fs, queried, tcase,
           readyFiles, template, newcue, APP, queue, qnow, ELOG, task, disk, info,
           sheet >>

\* The variables of cbae.js
encVars == << APP, queue, qnow, ELOG, task, disk, info >>

-----------------------------------------------------------------------------
(* Bounds of the model *)

MaxWork == 7    \* loadCue calls plus sheet lines handled by one instance

-----------------------------------------------------------------------------
(* Values *)

NULL    == "<null>"     \* JavaScript null, for the string valued fields
Missing == -1           \* fs value of a file that does not exist

\* const SUPPORTED_TRACK_FILES
SUPPORTED_TRACK_FILES == {"BINARY", "WAVE"}

\* const sectorsByType
sectorsByType ==
    [t \in {"AUDIO", "CDG", "MODE1_RAW", "MODE1/2048", "MODE1/2352", "MODE2_RAW",
            "MODE2/2048", "MODE2/2324", "MODE2/2336", "MODE2/2352", "CDI/2336",
            "CDI/2352"} |->
        CASE t = "AUDIO"      -> 2352
          [] t = "CDG"        -> 2448
          [] t = "MODE1_RAW"  -> 2352
          [] t = "MODE1/2048" -> 2048
          [] t = "MODE1/2352" -> 2352
          [] t = "MODE2_RAW"  -> 2352
          [] t = "MODE2/2048" -> 2048
          [] t = "MODE2/2324" -> 2324
          [] t = "MODE2/2336" -> 2336
          [] t = "MODE2/2352" -> 2352
          [] t = "CDI/2336"   -> 2336
          [] t = "CDI/2352"   -> 2352]

\* String.prototype.toUpperCase on the words the model's lines are made of:
\* the words listed here contain lower case letters, every other word of the
\* model is made of upper case letters, digits and punctuation only.
UpperTable ==
    [w \in {"title", "performer", "file", "track", "Index", "pregap", "rem",
            "audio", "mode1/2352", "binary", "wave",
            "a.bin", "b.bin", "Quake", "id", "opus", "bin"} |->
        CASE w = "title"      -> "TITLE"
          [] w = "performer"  -> "PERFORMER"
          [] w = "file"       -> "FILE"
          [] w = "track"      -> "TRACK"
          [] w = "Index"      -> "INDEX"
          [] w = "pregap"     -> "PREGAP"
          [] w = "rem"        -> "REM"
          [] w = "audio"      -> "AUDIO"
          [] w = "mode1/2352" -> "MODE1/2352"
          [] w = "binary"     -> "BINARY"
          [] w = "wave"       -> "WAVE"
          [] w = "a.bin"      -> "A.BIN"
          [] w = "b.bin"      -> "B.BIN"
          [] w = "Quake"      -> "QUAKE"
          [] w = "id"         -> "ID"
          [] w = "opus"       -> "OPUS"
          [] w = "bin"        -> "BIN"]

toUpperCase(w) == IF w \in DOMAIN UpperTable THEN UpperTable[w] ELSE w

\* String.prototype.toLowerCase on the extensions of the input paths
toLowerCase(w) == IF w = ".CUE" THEN ".cue" ELSE IF w = ".TXT" THEN ".txt" ELSE w

\* String.prototype.startsWith(p) on an upper-cased first word
startsWith(w, p) ==
    \/ w = p
    \/ << w, p >> \in { << "REMARK", "REM" >>, << "TITLES", "TITLE" >>,
                       << "FILENAME", "FILE" >>, << "INDEXES", "INDEX" >> }

\* parseInt on a string of decimal digits
RECURSIVE parseInt(_)
parseInt(ds) ==
    IF ds = << >> THEN 0
    ELSE parseInt(SubSeq(ds, 1, Len(ds) - 1)) * 10 + ds[Len(ds)]

\* sanitizePath of jlib/util/FsTools: drops the characters a file name may not hold
sanitizePath(w) ==
    CASE w = "Q:1"  -> "Q1"
      [] w = "Q1?"  -> "Q1"
      [] OTHER      -> w

-----------------------------------------------------------------------------
(* class cuetime *)

cuetime(n, m, s, f) == [no |-> n, minutes |-> m, seconds |-> s, frames |-> f]

toFrames(t) == (t.seconds * 75) + (t.minutes * 60 * 75) + t.frames

\* a % b of JavaScript for b > 0: the remainder has the sign of a
jsRem(a, b) == IF a >= 0 THEN a % b ELSE 0 - ((0 - a) % b)

\* Variant of fromFrames: the seconds are not reduced to the minute
fromFrames_wholeSeconds(t, f) ==
    [t EXCEPT !.minutes = f \div 4500,
              !.seconds = f \div 75,
              !.frames  = jsRem(f, 75)]

\* minutes = Math.floor(f / 4500); seconds = Math.floor((f % 4500) / 75); frames = f % 75
fromFrames(t, f) ==
    [t EXCEPT !.minutes = f \div 4500,
              !.seconds = jsRem(f, 4500) \div 75,
              !.frames  = jsRem(f, 75)]

-----------------------------------------------------------------------------
(* class cdtrack *)

cdtrack == [file |-> NULL, type |-> NULL, no |-> 0, title |-> NULL, artist |-> NULL,
            pregap |-> << >>, indexes |-> << >>, byteStart |-> 0, byteSize |-> 0,
            shared |-> NULL]

\* Variant of indexExists: only the first entry of the list is looked at
indexExists_firstOnly(tr, ind) == tr.indexes # << >> /\ tr.indexes[1].no = ind

indexExists(tr, ind) == \E k \in 1..Len(tr.indexes) : tr.indexes[k].no = ind

\* Variant of validCheck: any index makes the track valid
validCheck_anyIndex(tr) == Len(tr.indexes) > 0

\* TRUE when validCheck returns, FALSE when it throws
validCheck(tr) == indexExists(tr, 1)

isData(tr) == tr.type # "AUDIO"

-----------------------------------------------------------------------------
(* Errors: what a throw carries.  kind names the message, no the number and *)
(* txt the word the message quotes, line the 1-based line number that       *)
(* loadCue prefixes to an error of _cueParser (0: no prefix).               *)

Error(kind, no, txt) == [kind |-> kind, no |-> no, txt |-> txt, line |-> 0]

NoError == Error("None", 0, "")

\* The fields of the instance that _cueParser reads and writes
ParserState == [CD_TITLE  |-> CD_TITLE,  CD_ARTIST |-> CD_ARTIST, tracks |-> tracks,
                opentrack |-> opentrack, openfile  |-> openfile,  err    |-> NoError]

Throw(st, kind, no, txt) == [st EXCEPT !.err = Error(kind, no, txt)]

-----------------------------------------------------------------------------
(* cdinfos._cueParser, one operator per keyword branch *)

\* Variant of ParseTitle: the title of an open track is given to the disc as well
ParseTitle_both(st, ln) ==
    IF ln.text = "" /\ ~ln.quoted
    THEN Throw(st, "Syntax", 0, "")
    ELSE IF st.opentrack # 0
         THEN [st EXCEPT !.tracks[st.opentrack].title = toUpperCase(ln.text),
                         !.CD_TITLE = toUpperCase(ln.text)]
         ELSE [st EXCEPT !.CD_TITLE = toUpperCase(ln.text)]

\* if (lineup.startsWith('TITLE')) { ... }: the expression /^\w+\s+(.+)/ is run
\* on the upper-cased line, and the quotes are taken off if present
ParseTitle(st, ln) ==
    IF ln.text = "" /\ ~ln.quoted
    THEN Throw(st, "Syntax", 0, "")
    ELSE IF st.opentrack # 0
         THEN [st EXCEPT !.tracks[st.opentrack].title = toUpperCase(ln.text)]
         ELSE [st EXCEPT !.CD_TITLE = toUpperCase(ln.text)]

\* Variant of ParsePerformer: a line without an argument sets an empty name
ParsePerformer_noSyntax(st, ln) ==
    IF st.opentrack # 0
    THEN [st EXCEPT !.tracks[st.opentrack].artist = toUpperCase(ln.text)]
    ELSE [st EXCEPT !.CD_ARTIST = toUpperCase(ln.text)]

\* if (lineup.startsWith('PERFORMER')) { ... }
ParsePerformer(st, ln) ==
    IF ln.text = "" /\ ~ln.quoted
    THEN Throw(st, "Syntax", 0, "")
    ELSE IF st.opentrack # 0
         THEN [st EXCEPT !.tracks[st.opentrack].artist = toUpperCase(ln.text)]
         ELSE [st EXCEPT !.CD_ARTIST = toUpperCase(ln.text)]

\* Variant of fileTypeSupported: the type is compared in upper case
fileTypeSupported_anyCase(t) == toUpperCase(t) \in SUPPORTED_TRACK_FILES

\* if (!SUPPORTED_TRACK_FILES.includes(res[2]))
fileTypeSupported(t) == t \in SUPPORTED_TRACK_FILES

\* if (lineup.startsWith('FILE')) { ... }
ParseFile(st, ln) ==
    IF ~ln.quoted \/ ln.text = "" \/ ln.type = ""
    THEN Throw(st, "Syntax", 0, "")
    ELSE IF ~fileTypeSupported(ln.type)
    THEN Throw(st, "BadFileType", 0, ln.type)
    ELSE IF st.opentrack # 0 /\ ~validCheck(st.tracks[st.opentrack])
    THEN Throw(st, "NoIndex", st.tracks[st.opentrack].no, "")
    ELSE [st EXCEPT !.openfile = ln.text]

\* Variant of trackDefined: only the track before the new one is compared
trackDefined_lastOnly(trs, n) == trs # << >> /\ trs[Len(trs)].no = n

\* for (let t of this.tracks) if (t.no == parseInt(res[1])) throw ...
trackDefined(trs, n) == \E k \in 1..Len(trs) : trs[k].no = n

\* Variant of fileMissingForTrack: the check is left out
fileMissingForTrack_omitted(st) == FALSE

\* if (this.openfile == null && this.tracks.length == 0)
fileMissingForTrack(st) == st.openfile = NULL /\ Len(st.tracks) = 0

\* Variant of trackTypeSupported: the check is left out
trackTypeSupported_omitted(t) == TRUE

\* if (!sectorsByType.hasOwnProperty(res[2]))
trackTypeSupported(t) == t \in DOMAIN sectorsByType

\* Variant of ParseTrack: the pending file stays pending after the track took it
ParseTrack_keepsFile(st, ln) ==
    IF fileMissingForTrack(st)
    THEN Throw(st, "NoFile", 0, "")
    ELSE IF st.opentrack # 0 /\ ~validCheck(st.tracks[st.opentrack])
    THEN Throw(st, "NoIndex", st.tracks[st.opentrack].no, "")
    ELSE IF ln.num = << >> \/ ln.type = ""
    THEN Throw(st, "Syntax", 0, "")
    ELSE IF trackDefined(st.tracks, parseInt(ln.num))
    THEN Throw(st, "DupTrack", parseInt(ln.num), "")
    ELSE IF ~trackTypeSupported(toUpperCase(ln.type))
    THEN Throw(st, "BadTrackType", 0, toUpperCase(ln.type))
    ELSE [st EXCEPT
            !.tracks    = Append(@, [cdtrack EXCEPT !.no   = parseInt(ln.num),
                                                    !.type = toUpperCase(toUpperCase(ln.type)),
                                                    !.file = st.openfile]),
            !.opentrack = Len(st.tracks) + 1]

\* if (lineup.startsWith('TRACK')) { ... }
ParseTrack(st, ln) ==
    IF fileMissingForTrack(st)
    THEN Throw(st, "NoFile", 0, "")
    ELSE IF st.opentrack # 0 /\ ~validCheck(st.tracks[st.opentrack])
    THEN Throw(st, "NoIndex", st.tracks[st.opentrack].no, "")
    ELSE IF ln.num = << >> \/ ln.type = ""
    THEN Throw(st, "Syntax", 0, "")
    ELSE IF trackDefined(st.tracks, parseInt(ln.num))
    THEN Throw(st, "DupTrack", parseInt(ln.num), "")
    ELSE IF ~trackTypeSupported(toUpperCase(ln.type))
    THEN Throw(st, "BadTrackType", 0, toUpperCase(ln.type))
    ELSE [st EXCEPT
            !.tracks    = Append(@, [cdtrack EXCEPT !.no   = parseInt(ln.num),
                                                    !.type = toUpperCase(toUpperCase(ln.type)),
                                                    !.file = st.openfile]),
            !.opentrack = Len(st.tracks) + 1,
            !.openfile  = NULL]

\* The (\d{1,2}):(\d{1,2}):(\d{1,2}) part of the INDEX and PREGAP expressions:
\* it is not anchored at its end, so a third field of more than two digits
\* matches with its first two digits.
timeMatches(ln) == Len(ln.m) \in 1..2 /\ Len(ln.s) \in 1..2 /\ Len(ln.f) >= 1

firstTwo(ds) == IF Len(ds) > 2 THEN SubSeq(ds, 1, 2) ELSE ds

\* Variant of ParseIndex: the shape of the line is tested before the open track
ParseIndex_syntaxFirst(st, ln) ==
    IF ln.num = << >> \/ ~timeMatches(ln)
    THEN Throw(st, "Syntax", 0, "")
    ELSE IF st.opentrack = 0
    THEN Throw(st, "NoTrack", 0, "")
    ELSE IF indexExists(st.tracks[st.opentrack], parseInt(ln.num))
    THEN Throw(st, "DupIndex", st.tracks[st.opentrack].no, "")
    ELSE [st EXCEPT !.tracks[st.opentrack].indexes =
            Append(@, cuetime(parseInt(ln.num), parseInt(ln.m), parseInt(ln.s),
                              parseInt(firstTwo(ln.f))))]

\* if (lineup.startsWith('INDEX')) { ... }
ParseIndex(st, ln) ==
    IF st.opentrack = 0
    THEN Throw(st, "NoTrack", 0, "")
    ELSE IF ln.num = << >> \/ ~timeMatches(ln)
    THEN Throw(st, "Syntax", 0, "")
    ELSE IF indexExists(st.tracks[st.opentrack], parseInt(ln.num))
    THEN Throw(st, "DupIndex", st.tracks[st.opentrack].no, "")
    ELSE [st EXCEPT !.tracks[st.opentrack].indexes =
            Append(@, cuetime(parseInt(ln.num), parseInt(ln.m), parseInt(ln.s),
                              parseInt(firstTwo(ln.f))))]

\* if (lineup.startsWith('PREGAP')) { ... }
ParsePregap(st, ln) ==
    IF st.opentrack = 0
    THEN Throw(st, "NoTrack", 0, "")
    ELSE IF ~timeMatches(ln)
    THEN Throw(st, "Syntax", 0, "")
    ELSE [st EXCEPT !.tracks[st.opentrack].pregap =
            << cuetime(0, parseInt(ln.m), parseInt(ln.s), parseInt(firstTwo(ln.f))) >>]

\* Variant of cueParser: a line that starts with no known word is an error
cueParser_unknownFails(st, ln) ==
    LET lineup == toUpperCase(ln.kw) IN
    IF startsWith(lineup, "REM") THEN st
    ELSE IF startsWith(lineup, "TITLE")     THEN ParseTitle(st, ln)
    ELSE IF startsWith(lineup, "PERFORMER") THEN ParsePerformer(st, ln)
    ELSE IF startsWith(lineup, "FILE")      THEN ParseFile(st, ln)
    ELSE IF startsWith(lineup, "TRACK")     THEN ParseTrack(st, ln)
    ELSE IF startsWith(lineup, "INDEX")     THEN ParseIndex(st, ln)
    ELSE IF startsWith(lineup, "PREGAP")    THEN ParsePregap(st, ln)
    ELSE Throw(st, "Syntax", 0, "")

\* _cueParser(line): the chain of startsWith tests on the upper-cased line
cueParser(st, ln) ==
    LET lineup == toUpperCase(ln.kw) IN
    IF startsWith(lineup, "REM") \/ startsWith(lineup, ";") THEN st
    ELSE IF startsWith(lineup, "TITLE")     THEN ParseTitle(st, ln)
    ELSE IF startsWith(lineup, "PERFORMER") THEN ParsePerformer(st, ln)
    ELSE IF startsWith(lineup, "FILE")      THEN ParseFile(st, ln)
    ELSE IF startsWith(lineup, "TRACK")     THEN ParseTrack(st, ln)
    ELSE IF startsWith(lineup, "INDEX")     THEN ParseIndex(st, ln)
    ELSE IF startsWith(lineup, "PREGAP")    THEN ParsePregap(st, ln)
    ELSE st

-----------------------------------------------------------------------------
(* The second loop of loadCue: file sharing, file existence, byte positions *)

\* !x.file for a track x: null and the empty string are falsy
hasNoFile(tr) == tr.file = NULL \/ tr.file = ""

\* Variant of sectorOf: the sector size of the track's own type
sectorOf_ownType(ot, tr1) == sectorsByType[tr1.type]

\* sectorsByType[ot.type]: the sector size that scales the start of tr1
sectorOf(ot, tr1) == sectorsByType[ot.type]

\* Variant of sharedByteStart: the offset is taken in seconds, not in frames
sharedByteStart_seconds(ot, tr1) == sectorsByType[ot.type] * (toFrames(tr1.indexes[1]) \div 75)

\* tr1.byteStart = sectorsByType[ot.type] * tr1.indexes[0].toFrames()
sharedByteStart(ot, tr1) == sectorOf(ot, tr1) * toFrames(tr1.indexes[1])

\* Variant of sharedName: the name of the file is not handed on
sharedName_none(ot) == NULL

\* tr.shared = ot.file
sharedName(ot) == ot.file

\* tr.byteSize = tr1.byteStart - tr.byteStart
sizeUpToNext(tr, tr1start) == tr1start - tr.byteStart

\* Variant of sizeUpToEnd: the start of the track is not taken off
sizeUpToEnd_whole(tr, os) == os

\* tr.byteSize = os - tr.byteStart
sizeUpToEnd(tr, os) == os - tr.byteStart

\* Variant of existsQuery: the tracks that share a file are looked up as well
existsQuery_everyTrack(tr, ot) == << IF hasNoFile(tr) THEN ot.file ELSE tr.file >>

\* The names handed to FS.existsSync for track tr: if (tr.file) { ... existsSync ... }
existsQuery(tr, ot) == IF hasNoFile(tr) THEN << >> ELSE << tr.file >>

\* The value r of the loop's variables: r.tracks, r.size (CD_SIZE), r.ot (position
\* of the last track with a file, 0 = null), r.os (size of its file), r.err;
\* r.q collects the names handed to FS.existsSync.
\* Reading a property of null or undefined throws a TypeError.
ResolveStep(r, i, dir) ==
    LET tr == r.tracks[i]
        r0 == [r EXCEPT !.q = @ \o existsQuery(tr, IF r.ot = 0 THEN cdtrack ELSE r.tracks[r.ot])]
        \* if (tr.file) { ... } else { tr.shared = ot.file }
        a  == IF ~hasNoFile(tr)
              THEN IF dir[tr.file] = Missing
                   THEN [r0 EXCEPT !.ot = i, !.err = Error("FileMissing", 0, tr.file)]
                   ELSE [r0 EXCEPT !.ot = i, !.os = dir[tr.file], !.size = @ + dir[tr.file]]
              ELSE IF r.ot = 0
                   THEN [r0 EXCEPT !.err = Error("TypeError", 0, "")]
                   ELSE [r0 EXCEPT !.tracks[i].shared = sharedName(r.tracks[r.ot])]
    IN
    IF a.err.kind # "None" THEN a
    \* if (tr1 && !tr1.file) { ... } else { ... }
    ELSE IF i < Len(a.tracks) /\ hasNoFile(a.tracks[i + 1])
    THEN IF a.ot = 0 \/ Len(a.tracks[i + 1].indexes) = 0
         THEN [a EXCEPT !.err = Error("TypeError", 0, "")]
         ELSE LET b0 == sharedByteStart(a.tracks[a.ot], a.tracks[i + 1])
              IN  [a EXCEPT !.tracks[i + 1].byteStart = b0,
                            !.tracks[i].byteSize      = sizeUpToNext(a.tracks[i], b0)]
    ELSE [a EXCEPT !.tracks[i].byteSize = sizeUpToEnd(a.tracks[i], a.os)]

\* for (let i = 0, ot = null, os = null; i < this.tracks.length; i++) { ... }
RECURSIVE ResolveFrom(_, _, _)
ResolveFrom(r, i, dir) ==
    IF i > Len(r.tracks) \/ r.err.kind # "None" THEN r
    ELSE ResolveFrom(ResolveStep(r, i, dir), i + 1, dir)

Resolve(trs, size, dir) ==
    ResolveFrom([tracks |-> trs, size |-> size, ot |-> 0, os |-> 0, err |-> NoError,
                 q |-> << >>], 1, dir)

-----------------------------------------------------------------------------
(* cdinfos.prepareFilenames: the names of the new track files                *)

\* Number.prototype.toString().padStart(2, '0')
pad2(n) == IF n \in 0..9 THEN "0" \o ToString(n) ELSE ToString(n)

\* get noStr()
noStr(tr) == pad2(tr.no)

\* A template is a list of pieces: a tag {s}, or the text s between tags
Tag(s) == [tag |-> TRUE,  s |-> s]
Lit(s) == [tag |-> FALSE, s |-> s]

\* No template: null, or the empty string
NoTemplate == << >>

\* readyFiles = null
NoNames == [isNull |-> TRUE, names |-> << >>]

\* Variant of defaultTemplate: one track with a title is enough for the title templates
defaultTemplate_anyTitle(trs) ==
    IF \E i \in 1..Len(trs) : trs[i].title # NULL
    THEN IF \E i \in 1..Len(trs) : trs[i].artist # NULL
         THEN << Tag("no"), Lit(". "), Tag("ta"), Lit(" - "), Tag("tt") >>
         ELSE << Tag("no"), Lit(". "), Tag("tt") >>
    ELSE << Tag("cdt"), Lit(" - Track "), Tag("no") >>

\* if (!template) { ... }: the choice among the three default templates
defaultTemplate(trs) ==
    IF \A i \in 1..Len(trs) : trs[i].title # NULL
    THEN IF \E i \in 1..Len(trs) : trs[i].artist # NULL
         THEN << Tag("no"), Lit(". "), Tag("ta"), Lit(" - "), Tag("tt") >>
         ELSE << Tag("no"), Lit(". "), Tag("tt") >>
    ELSE << Tag("cdt"), Lit(" - Track "), Tag("no") >>

\* The switch of the replace callback: what the tag {B} stands for
tagValue(B, tr, cdt, cda) ==
    CASE B = "cdt" -> cdt
      [] B = "cda" -> cda
      [] B = "tt"  -> IF tr.title = NULL THEN "untitled" ELSE tr.title
      [] B = "ta"  -> IF tr.artist = NULL THEN "unknown artist" ELSE tr.artist
      [] B = "no"  -> noStr(tr)
      [] OTHER     -> B

\* sanitizePath(template.replace(...)): the sanitizer drops characters one by
\* one, so the name is put together from its sanitized pieces
RECURSIVE fileName(_, _, _, _)
fileName(tpl, tr, cdt, cda) ==
    IF tpl = << >> THEN ""
    ELSE sanitizePath(IF Head(tpl).tag THEN tagValue(Head(tpl).s, tr, cdt, cda)
                                       ELSE Head(tpl).s)
         \o fileName(Tail(tpl), tr, cdt, cda)

\* Variant of hasDuplicates: equal names are not looked for
hasDuplicates_never(names) == FALSE

\* readyFiles.filter((it, ind) => readyFiles.indexOf(it) !== ind).length > 0
hasDuplicates(names) ==
    \E i, j \in 1..Len(names) : i < j /\ names[i] = names[j]

\* prepareFilenames(template): the template worked with, the new value of
\* readyFiles, and what is thrown
prepareFilenames(trs, cdt, cda, tpl) ==
    LET used  == IF tpl = NoTemplate THEN defaultTemplate(trs) ELSE tpl
        names == [i \in 1..Len(trs) |-> fileName(used, trs[i], cdt, cda)]
    IN  [template   |-> [arg |-> tpl, used |-> used],
         readyFiles |-> [isNull |-> FALSE, names |-> names],
         err        |-> IF hasDuplicates(names) THEN Error("DupNames", 0, "") ELSE NoError]

-----------------------------------------------------------------------------
(* cdinfos.buildCueFileForCBAE: the lines of the new sheet                   *)

\* cuetime.toString()
timeString(t) ==
    pad2(t.minutes) \o ":" \o pad2(t.seconds) \o ":" \o pad2(t.frames)

\* A line of the new sheet: the number of tabs in front of it, its keyword,
\* the text between its quotes, its number, its type or tag, its timestamp
Out(tabs, kw, text, no, type, time) ==
    [tabs |-> tabs, kw |-> kw, text |-> text, no |-> no, type |-> type, time |-> time]

\* aExt.slice(1) on the extensions of the encoders
sliceDot(ext) ==
    CASE ext = ".opus" -> "opus"
      [] ext = ".bin"  -> "bin"
      [] OTHER         -> ext

\* The lines pushed before the loop over the tracks
cueHead(cdt, cda) ==
    (IF cda # "" THEN << Out(1, "PERFORMER", cda, "", "", "") >> ELSE << >>)
    \o << Out(1, "TITLE", cdt, "", "", ""), Out(0, "", "", "", "", "") >>

\* Variant of indexZero: the zero point is the index numbered 1
indexZero_numberOne(tr) ==
    toFrames(tr.indexes[CHOOSE k \in 1..Len(tr.indexes) : tr.indexes[k].no = 1])

\* let i0 = tr.indexes[0].toFrames()
indexZero(tr) == toFrames(tr.indexes[1])

\* inew = new cuetime(iit.no, 0, 0, 0); inew.fromFrames(iit.toFrames() - i0);
\* b.push(`INDEX ${inew.no.toString().padStart(2,'0')} ${inew}`)
cueIndex(tr, k) ==
    LET iit  == tr.indexes[k]
        inew == fromFrames(cuetime(iit.no, 0, 0, 0), toFrames(iit) - indexZero(tr))
    IN  Out(2, "INDEX", "", pad2(inew.no), "", timeString(inew))

\* Variant of cueTrack: the PREGAP line is left out
cueTrack_noPregap(tr, fn, aExt) ==
    << IF isData(tr) THEN Out(1, "FILE", fn \o ".bin", "", "BINARY", "")
                     ELSE Out(1, "FILE", fn \o aExt, "", toUpperCase(sliceDot(aExt)), "") >>
    \o (IF tr.title \notin {NULL, ""}  THEN << Out(2, "TITLE", tr.title, "", "", "") >> ELSE << >>)
    \o (IF tr.artist \notin {NULL, ""} THEN << Out(2, "PERFORMER", tr.artist, "", "", "") >> ELSE << >>)
    \o << Out(2, "TRACK", "", noStr(tr), tr.type, "") >>
    \o [k \in 1..Len(tr.indexes) |-> cueIndex(tr, k)]

\* One turn of the loop over the tracks: the lines pushed for track tr, whose
\* new file is named fn
cueTrack(tr, fn, aExt) ==
    << IF isData(tr) THEN Out(1, "FILE", fn \o ".bin", "", "BINARY", "")
                     ELSE Out(1, "FILE", fn \o aExt, "", toUpperCase(sliceDot(aExt)), "") >>
    \o (IF tr.title \notin {NULL, ""}  THEN << Out(2, "TITLE", tr.title, "", "", "") >> ELSE << >>)
    \o (IF tr.artist \notin {NULL, ""} THEN << Out(2, "PERFORMER", tr.artist, "", "", "") >> ELSE << >>)
    \o << Out(2, "TRACK", "", noStr(tr), tr.type, "") >>
    \o (IF tr.pregap # << >>
        THEN << Out(2, "PREGAP", "", "", "", timeString(tr.pregap[1])) >> ELSE << >>)
    \o [k \in 1..Len(tr.indexes) |-> cueIndex(tr, k)]

RECURSIVE cueTracks(_, _, _, _)
cueTracks(trs, names, aExt, i) ==
    IF i > Len(trs) THEN << >>
    ELSE cueTrack(trs[i], names[i], aExt) \o cueTracks(trs, names, aExt, i + 1)

\* buildCueFileForCBAE(aExt), once readyFiles is set
buildCue(trs, cdt, cda, names, aExt) ==
    cueHead(cdt, cda) \o cueTracks(trs, names, aExt, 1)

-----------------------------------------------------------------------------
(* The inputs of the model *)

Ln(kw, text, quoted, num, type, m, s, f) ==
    [kw |-> kw, text |-> text, quoted |-> quoted, num |-> num, type |-> type,
     m |-> m, s |-> s, f |-> f]

NoLine == Ln("", "", FALSE, << >>, "", << >>, << >>, << >>)

TitleLines ==
    { Ln("TITLE", "Quake", TRUE, << >>, "", << >>, << >>, << >>) }

PerformerLines ==
    { Ln("PERFORMER", "id", TRUE, << >>, "", << >>, << >>, << >>) }

FileLines ==
    { Ln("FILE", "a.bin", TRUE,  << >>, "BINARY", << >>, << >>, << >>),
      Ln("FILE", "b.bin", TRUE,  << >>, "WAVE",   << >>, << >>, << >>),
      Ln("file", "a.bin", TRUE,  << >>, "binary", << >>, << >>, << >>),
      Ln("FILE", "a.bin", TRUE,  << >>, "MP3",    << >>, << >>, << >>),
      Ln("FILE", "a.bin", FALSE, << >>, "MP3",    << >>, << >>, << >>) }

TrackLines ==
    { Ln("TRACK", "", FALSE, <<0, 1>>, "MODE1/2048", << >>, << >>, << >>),
      Ln("TRACK", "", FALSE, <<0, 1>>, "AUDIO",      << >>, << >>, << >>),
      Ln("TRACK", "", FALSE, <<1>>,    "AUDIO",      << >>, << >>, << >>),
      Ln("TRACK", "", FALSE, <<0, 2>>, "AUDIO",      << >>, << >>, << >>),
      Ln("track", "", FALSE, <<0, 3>>, "audio",      << >>, << >>, << >>),
      Ln("TRACK", "", FALSE, <<0, 2>>, "MODE9",      << >>, << >>, << >>) }

IndexLines ==
    { Ln("INDEX", "", FALSE, <<0, 0>>, "", <<0, 0>>, <<0, 0>>, <<0, 2>>),
      Ln("INDEX", "", FALSE, <<0, 1>>, "", <<0, 0>>, <<0, 0>>, <<0, 0>>),
      Ln("INDEX", "", FALSE, <<0, 1>>, "", <<0, 0>>, <<0, 0>>, <<0, 2>>),
      Ln("INDEX", "", FALSE, <<0, 1>>, "", <<0, 0>>, <<0, 1>>, <<0, 0>>),
      Ln("INDEX", "", FALSE, <<1>>,    "", <<0, 0>>, <<0, 0>>, <<0, 2>>),
      Ln("INDEX", "", FALSE, <<0, 1>>, "", <<0, 0, 0>>, <<0, 0>>, <<0, 0>>) }

PregapLines ==
    { Ln("PREGAP", "", FALSE, << >>, "", <<0, 0>>, <<0, 2>>, <<0, 0>>) }

OtherLines ==
    { Ln("REM", "", FALSE, << >>, "", << >>, << >>, << >>) }

Lines == TitleLines \cup PerformerLines \cup FileLines \cup TrackLines
         \cup IndexLines \cup PregapLines \cup OtherLines

\* The paths loadCue is called with: base name, extension, and whether
\* getFileLines can read the file
Inputs == { [base |-> "GAME", ext |-> ".cue", readable |-> TRUE],
            [base |-> "GAME", ext |-> ".CUE", readable |-> FALSE],
            [base |-> "GAME", ext |-> ".TXT", readable |-> TRUE] }

NoInput == [base |-> "", ext |-> "", readable |-> FALSE]

\* The directories the sheet may lie in
FileSystems ==
    { [n \in {"a.bin", "b.bin"} |-> IF n = "a.bin" THEN a ELSE b] :
        a \in { Missing, 4704, 200000 }, b \in { 9408 } }

\* The directory is not looked at before the layout pass: the model fixes
\* its content when that pass runs, and starts from an empty directory
NoFiles == [n \in {"a.bin", "b.bin"} |-> Missing]

\* A cuetime before it is set, new cuetime(0, 0, 0, 0), with the record of its use
\* APP.option before the command line is read
NoOption == [enc |-> NULL, only |-> NULL, p |-> 0, sh |-> FALSE, tname |-> NoTemplate]

\* ENC before FFMPEG.getEnc has set it, and what getEnc returns for an error
NoEnc == [ext |-> NULL]

\* ELOG as it is declared
NoLog == [inputs |-> << >>, success |-> 0, error |-> {}, skip |-> {}, size0 |-> 0, size1 |-> 0]

\* A cdinfos instance as the constructor leaves it
NoCD == [CD_TITLE |-> "", CD_ARTIST |-> "", CD_FILE |-> "", CD_SIZE |-> 0,
         tracks |-> << >>, err |-> NoError]

\* A path of the command line: what loadCue reads of it (base name,
\* extension, readability), the lines of the sheet, and its directory
NoFile == [base |-> "", ext |-> "", readable |-> FALSE, lines |-> << >>, dir |-> NoFiles]

\* No rejection value
NoEr == [isString |-> FALSE, plus |-> FALSE, text |-> ""]

\* The info action has not come to the instance
NoInfo == [state |-> "none", size |-> 0, data |-> 0, audio |-> 0, sha |-> << >>]

\* No taskEncodeCD call is under way
NoTask == [state |-> "idle", file |-> NoFile, cd |-> NoCD, outDir |-> 0, names |-> << >>,
           units |-> << >>, encSize |-> 0, er |-> << >>]

NoCase == [t |-> cuetime(0, 0, 0, 0), set |-> FALSE, f |-> 0, read |-> FALSE, out |-> 0]

-----------------------------------------------------------------------------
(* The instance after construction: new cdinfos() *)

Init ==
    /\ CD_ARTIST = ""
    /\ CD_TITLE = ""
    /\ CD_SIZE = 0
    /\ CD_FILE = ""
    /\ FILE_LOADED = NoInput
    /\ tracks = << >>
    /\ opentrack = 0
    /\ openfile = NULL
    /\ pc = "new"
    /\ input = NoInput
    /\ lineNo = 0
    /\ line = NoLine
    /\ err = NoError
    /\ work = 0
    /\ loaded = FALSE
    /\ fs = NoFiles
    /\ queried = << >>
    /\ tcase = NoCase
    /\ readyFiles = NoNames
    /\ template = [arg |-> NoTemplate, used |-> NoTemplate]
    /\ newcue = << >>
    /\ APP = [state |-> "start", option |-> NoOption, ENC |-> NoEnc]
    /\ queue = << >>
    /\ qnow = 0
    /\ ELOG = NoLog
    /\ task = NoTask
    /\ disk = << >>
    /\ info = NoInfo
    /\ sheet = << >>

\* Variant of alreadyLoaded: a second call is let through
alreadyLoaded_never == FALSE

\* if (this.tracks.length > 0) throw "Loading again unsupported ..."
alreadyLoaded == Len(tracks) > 0

\* loadCue(input), up to the start of the parsing loop.  input, lineNo and
\* line stand for the locals of the call (the normalized path, l, line): a
\* call rejected by its first statement has none of them.
LoadCueCall(bound) ==
    /\ pc # "parsing"
    /\ work < bound
    /\ work' = work + 1
    /\ \E inp \in Inputs :
        IF alreadyLoaded
        THEN /\ pc' = "failed" /\ err' = Error("LoadAgain", 0, "")
             /\ input' = NoInput /\ lineNo' = 0 /\ line' = NoLine
        ELSE /\ input' = inp /\ lineNo' = 0 /\ line' = NoLine
             /\ IF toLowerCase(inp.ext) # ".cue"
                THEN pc' = "failed" /\ err' = Error("NotCue", 0, "")
                ELSE IF ~inp.readable
                THEN pc' = "failed" /\ err' = Error("CannotLoad", 0, "")
                ELSE pc' = "parsing" /\ err' = NoError
    /\ UNCHANGED << CD_ARTIST, CD_TITLE, CD_SIZE, CD_FILE, FILE_LOADED, tracks,
                    opentrack, openfile, loaded, fs, queried, tcase,
                    readyFiles, template, newcue >>
    /\ UNCHANGED encVars

LoadCueBegin == LoadCueCall(MaxWork) /\ UNCHANGED sheet

\* One iteration of the parsing loop of loadCue: trim, skip a blank line,
\* else _cueParser(line) with the line number put in front of what it throws
LoadCueLine(sheetLines, bound) ==
    /\ pc = "parsing"
    /\ work < bound
    /\ \E ln \in sheetLines :
        LET st == IF ln.kw = "" THEN ParserState ELSE cueParser(ParserState, ln) IN
        /\ line' = ln
        /\ lineNo' = lineNo + 1
        /\ work' = work + 1
        /\ CD_TITLE' = st.CD_TITLE
        /\ CD_ARTIST' = st.CD_ARTIST
        /\ tracks' = st.tracks
        /\ opentrack' = st.opentrack
        /\ openfile' = st.openfile
        /\ IF st.err.kind # "None"
           THEN pc' = "failed" /\ err' = [st.err EXCEPT !.line = lineNo + 1]
           ELSE pc' = "parsing" /\ err' = NoError
    /\ UNCHANGED << CD_SIZE, CD_FILE, FILE_LOADED, input, loaded, fs, queried, tcase,
                    readyFiles, template, newcue >>
    /\ UNCHANGED encVars

ParseLine == LoadCueLine(Lines, MaxWork) /\ UNCHANGED sheet

\* Variant of noTracks: an empty track list is let through
noTracks_never(trs) == FALSE

\* if (this.tracks.length == 0) throw 'No Tracks in the cue file'
noTracks(trs) == Len(trs) = 0

\* loadCue after the last line: post-parse checks, default title, byte layout
LoadCueLayout(dirs) ==
    /\ pc = "parsing"
    /\ FILE_LOADED' = input
    /\ UNCHANGED << CD_ARTIST, opentrack, openfile, input, lineNo, line, work, tcase,
                    readyFiles, template, newcue >>
    /\ UNCHANGED encVars
    /\ IF noTracks(tracks)
       THEN /\ pc' = "failed" /\ err' = Error("NoTracks", 0, "")
            /\ UNCHANGED << CD_TITLE, CD_FILE, CD_SIZE, tracks, loaded, fs, queried >>
       ELSE IF opentrack # 0 /\ ~validCheck(tracks[opentrack])
       THEN /\ pc' = "failed" /\ err' = Error("NoIndex", tracks[opentrack].no, "")
            /\ UNCHANGED << CD_TITLE, CD_FILE, CD_SIZE, tracks, loaded, fs, queried >>
       ELSE \E dir \in dirs :
            LET title == IF CD_TITLE = "" THEN input.base ELSE CD_TITLE
                r     == Resolve(tracks, CD_SIZE, dir)
            IN  /\ fs' = dir
                /\ queried' = r.q
                /\ CD_TITLE' = title
                /\ CD_FILE' = sanitizePath(title)
                /\ tracks' = r.tracks
                /\ CD_SIZE' = r.size
                /\ err' = r.err
                /\ pc' = IF r.err.kind = "None" THEN "loaded" ELSE "failed"
                /\ loaded' = (loaded \/ r.err.kind = "None")

LoadCueFinish == LoadCueLayout(FileSystems) /\ UNCHANGED sheet

Next == LoadCueBegin \/ ParseLine \/ LoadCueFinish

Spec == Init /\ [][Next]_vars

-----------------------------------------------------------------------------
(* Sheets of several files: the same program run on longer sheets made of   *)
(* well-formed FILE, TRACK and INDEX lines, in a directory where either     *)
(* file may be absent.                                                      *)

MaxLayoutWork == 9

LayoutLines ==
    { Ln("FILE", "a.bin", TRUE, << >>, "BINARY", << >>, << >>, << >>),
      Ln("FILE", "b.bin", TRUE, << >>, "WAVE", << >>, << >>, << >>),
      Ln("TRACK", "", FALSE, <<0, 1>>, "AUDIO", << >>, << >>, << >>),
      Ln("TRACK", "", FALSE, <<0, 2>>, "AUDIO", << >>, << >>, << >>),
      Ln("track", "", FALSE, <<0, 3>>, "audio", << >>, << >>, << >>),
      Ln("INDEX", "", FALSE, <<0, 1>>, "", <<0, 0>>, <<0, 0>>, <<0, 0>>),
      Ln("INDEX", "", FALSE, <<0, 1>>, "", <<0, 0>>, <<0, 0>>, <<0, 2>>) }

LayoutFileSystems ==
    { [n \in {"a.bin", "b.bin"} |-> IF n = "a.bin" THEN a ELSE b] :
        a \in { Missing, 4704 }, b \in { Missing, 9408 } }

LayoutBegin == LoadCueCall(MaxLayoutWork) /\ UNCHANGED sheet

LayoutLine == LoadCueLine(LayoutLines, MaxLayoutWork) /\ UNCHANGED sheet

LayoutFinish == LoadCueLayout(LayoutFileSystems) /\ UNCHANGED sheet

NextLayout == LayoutBegin \/ LayoutLine \/ LayoutFinish

SpecLayout == Init /\ [][NextLayout]_vars

-----------------------------------------------------------------------------
(* Sheets with lines in other spellings: the same program run on short      *)
(* sheets whose lines vary the letter case of keywords, types and texts,    *)
(* the quoting of texts, and the width and value of numbers.                *)

MaxLexWork == 6

LexLines ==
    { Ln("TITLE", "Quake", TRUE,  << >>, "", << >>, << >>, << >>),
      Ln("title", "Quake", TRUE,  << >>, "", << >>, << >>, << >>),
      Ln("TITLE", "Quake", FALSE, << >>, "", << >>, << >>, << >>),
      Ln("TITLE", "",      FALSE, << >>, "", << >>, << >>, << >>),
      Ln("PERFORMER", "id", TRUE,  << >>, "", << >>, << >>, << >>),
      Ln("PERFORMER", "id", FALSE, << >>, "", << >>, << >>, << >>),
      Ln("PERFORMER", "",   FALSE, << >>, "", << >>, << >>, << >>),
      Ln("FILE", "a.bin", TRUE,  << >>, "BINARY", << >>, << >>, << >>),
      Ln("file", "a.bin", TRUE,  << >>, "BINARY", << >>, << >>, << >>),
      Ln("FILE", "a.bin", TRUE,  << >>, "binary", << >>, << >>, << >>),
      Ln("TRACK", "", FALSE, <<0, 1>>,    "AUDIO", << >>, << >>, << >>),
      Ln("track", "", FALSE, <<0, 1>>,    "AUDIO", << >>, << >>, << >>),
      Ln("TRACK", "", FALSE, <<0, 1>>,    "audio", << >>, << >>, << >>),
      Ln("TRACK", "", FALSE, <<0, 0>>,    "AUDIO", << >>, << >>, << >>),
      Ln("TRACK", "", FALSE, <<1, 0, 0>>, "AUDIO", << >>, << >>, << >>),
      Ln("INDEX", "", FALSE, <<0, 1>>, "", <<0, 0>>, <<0, 0>>, <<0, 0>>),
      Ln("INDEX", "", FALSE, <<0, 1>>, "", <<0, 0>>, <<7, 5>>, <<8, 0>>),
      Ln("INDEX", "", FALSE, <<0, 1>>, "", <<0, 0>>, <<0, 0>>, <<1, 2, 3>>),
      Ln("INDEX", "", FALSE, <<0, 1>>, "", <<0, 0>>, <<1, 2, 3>>, <<0, 0>>),
      Ln("PREGAP", "", FALSE, << >>, "", <<0, 0>>, <<0, 2>>, <<0, 0>>),
      Ln("PREGAP", "", FALSE, << >>, "", <<0, 0>>, <<9, 9>>, <<9, 9>>) }

LexBegin == LoadCueCall(MaxLexWork) /\ UNCHANGED sheet

LexLine == LoadCueLine(LexLines, MaxLexWork) /\ UNCHANGED sheet

LexFinish == LoadCueLayout(FileSystems) /\ UNCHANGED sheet

NextLex == LexBegin \/ LexLine \/ LexFinish

SpecLex == Init /\ [][NextLex]_vars

-----------------------------------------------------------------------------
(* Naming the track files and writing the new sheet: a sheet of one file is *)
(* loaded, then prepareFilenames and buildCueFileForCBAE are called on the  *)
(* loaded instance, as taskEncodeCD does.                                   *)

MaxCueWork == 9

CueLines ==
    { Ln("PERFORMER", "id", TRUE, << >>, "", << >>, << >>, << >>),
      Ln("FILE", "a.bin", TRUE, << >>, "BINARY", << >>, << >>, << >>),
      Ln("TRACK", "", FALSE, <<0, 1>>, "MODE1/2352", << >>, << >>, << >>),
      Ln("TRACK", "", FALSE, <<0, 1>>, "AUDIO", << >>, << >>, << >>),
      Ln("TRACK", "", FALSE, <<0, 2>>, "AUDIO", << >>, << >>, << >>),
      Ln("TRACK", "", FALSE, <<0, 3>>, "AUDIO", << >>, << >>, << >>),
      Ln("TITLE", "Q:1", TRUE, << >>, "", << >>, << >>, << >>),
      Ln("TITLE", "Q1?", TRUE, << >>, "", << >>, << >>, << >>),
      Ln("PREGAP", "", FALSE, << >>, "", <<0, 0>>, <<0, 2>>, <<0, 0>>),
      Ln("INDEX", "", FALSE, <<0, 0>>, "", <<0, 0>>, <<0, 0>>, <<0, 2>>),
      Ln("INDEX", "", FALSE, <<0, 1>>, "", <<0, 0>>, <<0, 1>>, <<0, 0>>) }

\* The place of a line inside the lines of one track
lineRank(ln) ==
    CASE ln.kw = "TRACK"     -> 1
      [] ln.kw = "TITLE"     -> 2
      [] ln.kw = "PERFORMER" -> 3
      [] ln.kw = "PREGAP"    -> 4
      [] ln.kw = "INDEX"     -> 5
      [] OTHER               -> 0

\* The sheets of this specification are written in one order: an optional
\* disc PERFORMER, the FILE line, then track after track, numbered from 1,
\* each with its optional TITLE, PERFORMER and PREGAP and then its INDEX
\* lines, where INDEX 00 may stand before or after INDEX 01.  This is the set
\* of the lines that may come after the lines read so far.
SheetOrder(ln) ==
    IF tracks = << >>
    THEN CASE line.kw = ""          -> ln.kw \in {"PERFORMER", "FILE"}
           [] line.kw = "PERFORMER" -> ln.kw = "FILE"
           [] OTHER                 -> ln.kw = "TRACK" /\ parseInt(ln.num) = 1
    ELSE CASE ln.kw = "TRACK" ->
                 /\ line.kw = "INDEX" /\ validCheck(tracks[opentrack])
                 /\ parseInt(ln.num) = Len(tracks) + 1
           [] ln.kw = "INDEX" ->
                 /\ ~indexExists(tracks[opentrack], parseInt(ln.num))
                 /\ Len(tracks[opentrack].indexes) < 2
           [] OTHER ->
                 lineRank(ln) > lineRank(line) /\ lineRank(line) > 0

CueFileSystems == { [n \in {"a.bin", "b.bin"} |-> IF n = "a.bin" THEN 200000 ELSE Missing] }

\* The templates taskEncodeCD hands to prepareFilenames: none, the one of
\* option -sh, and what option -tname carries
Templates ==
    { NoTemplate,
      << Lit("track"), Tag("no") >>,
      << Tag("tt") >>,
      << Tag("no"), Lit(" "), Tag("tt"), Lit(" "), Tag("ta") >> }

\* ENC.ext of the encoders OPUS and RAW
AudioExts == { ".opus", ".bin" }

\* cd.prepareFilenames(templ) on a loaded instance
PrepareFilenames ==
    /\ pc = "loaded"
    /\ \E tpl \in Templates :
          LET r == prepareFilenames(tracks, CD_TITLE, CD_ARTIST, tpl) IN
          /\ readyFiles' = r.readyFiles
          /\ template' = r.template
          /\ err' = r.err
    /\ UNCHANGED << CD_ARTIST, CD_TITLE, CD_SIZE, CD_FILE, FILE_LOADED, tracks, opentrack,
                    openfile, pc, input, lineNo, line, work, loaded, fs, queried, tcase,
                    newcue, sheet >>
    /\ UNCHANGED encVars

\* cd.buildCueFileForCBAE(ENC.ext) on a loaded instance:
\* if (!this.readyFiles) this.prepareFilenames(); ...; return b
BuildCueFileForCBAE ==
    /\ pc = "loaded"
    /\ \E aExt \in AudioExts :
          LET r == IF readyFiles.isNull
                   THEN prepareFilenames(tracks, CD_TITLE, CD_ARTIST, NoTemplate)
                   ELSE [template |-> template, readyFiles |-> readyFiles, err |-> NoError]
          IN  /\ readyFiles' = r.readyFiles
              /\ template' = r.template
              /\ err' = r.err
              /\ newcue' = IF r.err.kind # "None" THEN newcue
                           ELSE buildCue(tracks, CD_TITLE, CD_ARTIST, r.readyFiles.names, aExt)
    /\ UNCHANGED << CD_ARTIST, CD_TITLE, CD_SIZE, CD_FILE, FILE_LOADED, tracks, opentrack,
                    openfile, pc, input, lineNo, line, work, loaded, fs, queried, tcase,
                    sheet >>
    /\ UNCHANGED encVars

CueBegin == LoadCueCall(MaxCueWork) /\ UNCHANGED sheet

CueLine == LoadCueLine({ ln \in CueLines : SheetOrder(ln) }, MaxCueWork) /\ UNCHANGED sheet

CueFinish == LoadCueLayout(CueFileSystems) /\ UNCHANGED sheet

NextCue == CueBegin \/ CueLine \/ CueFinish \/ PrepareFilenames \/ BuildCueFileForCBAE

SpecCue == Init /\ [][NextCue]_vars

-----------------------------------------------------------------------------
(* class cuetime on its own: an object made by new cuetime(0, 0, 0, 0) is   *)
(* set from a frame count and then asked for its frame count.               *)

MaxFrames == 9100

\* The fields of the cdinfos instance and of its caller
cdVars == << CD_ARTIST, CD_TITLE, CD_SIZE, CD_FILE, FILE_LOADED, tracks, opentrack,
             openfile, pc, input, lineNo, line, err, work, loaded, fs, queried,
             readyFiles, template, newcue, sheet >>

\* t.fromFrames(f)
SetFromFrames ==
    /\ ~tcase.set
    /\ \E f \in 0..MaxFrames :
          tcase' = [tcase EXCEPT !.t = fromFrames(tcase.t, f), !.set = TRUE, !.f = f]
    /\ UNCHANGED cdVars
    /\ UNCHANGED encVars

\* out = t.toFrames()
ReadToFrames ==
    /\ tcase.set /\ ~tcase.read
    /\ tcase' = [tcase EXCEPT !.read = TRUE, !.out = toFrames(tcase.t)]
    /\ UNCHANGED cdVars
    /\ UNCHANGED encVars

NextTime == SetFromFrames \/ ReadToFrames

SpecTime == Init /\ [][NextTime]_vars

-----------------------------------------------------------------------------
(* cbae.js: the encode action, taskEncodeCD and its queue of inputs.         *)
(* A step is what runs without a break: the main script, a call of the       *)
(* queue's callback together with the executor of the promise it makes, one  *)
(* pull of the track generator, the end of one unit of work, and each of     *)
(* the then / catch callbacks.  What the file system and the encoder         *)
(* answer is picked in the step that asks.                                   *)

MaxQueue == 2     \* the paths on the command line

\* A string that is thrown or rejected with: plus tells whether its first
\* character is "+", text is what follows
Msg(text) == [isString |-> TRUE, plus |-> FALSE, text |-> text]

PlusMsg(text) == [isString |-> TRUE, plus |-> TRUE, text |-> text]

\* A rejection value that is not a string (an Error, the logExit of Proc2)
NotAString == [isString |-> FALSE, plus |-> FALSE, text |-> "object"]

\* What loadCue throws: a string, but for the TypeError of a null reference
thrown(e) == IF e.kind = "TypeError" THEN NotAString ELSE Msg(e.kind)

\* The parsing loop of loadCue over the lines of a sheet, from line l on.
\* The state after a line is taken as the one member of a set, which makes
\* it a value before the next line is looked at.
RECURSIVE parseLines(_, _, _)
parseLines(st, lines, l) ==
    IF l > Len(lines) \/ st.err.kind # "None" THEN st
    ELSE CHOOSE r \in
            { parseLines(IF st1.err.kind # "None" THEN [st1 EXCEPT !.err.line = l] ELSE st1,
                         lines, l + 1) :
              st1 \in { IF lines[l].kw = "" THEN st ELSE cueParser(st, lines[l]) } } : TRUE

\* loadCue after its parsing loop has left the parser in state st: the
\* post-parse checks, the default title and the byte layout
loadCueLayout(file, st) ==
    LET cd1 == [NoCD EXCEPT !.CD_TITLE = st.CD_TITLE, !.CD_ARTIST = st.CD_ARTIST,
                            !.tracks = st.tracks]
    IN
    IF st.err.kind # "None" THEN [cd1 EXCEPT !.err = st.err]
    ELSE IF noTracks(st.tracks) THEN [cd1 EXCEPT !.err = Error("NoTracks", 0, "")]
    ELSE IF st.opentrack # 0 /\ ~validCheck(st.tracks[st.opentrack])
    THEN [cd1 EXCEPT !.err = Error("NoIndex", st.tracks[st.opentrack].no, "")]
    ELSE LET title == IF st.CD_TITLE = "" THEN file.base ELSE st.CD_TITLE IN
         CHOOSE cd \in
            { [CD_TITLE |-> title, CD_ARTIST |-> st.CD_ARTIST, CD_FILE |-> sanitizePath(title),
               CD_SIZE |-> r.size, tracks |-> r.tracks, err |-> r.err] :
              r \in { Resolve(st.tracks, 0, file.dir) } } : TRUE

\* cd = new cdinfos(); cd.loadCue(file): the instance the call leaves, with
\* what it threw in err
loadCue(file) ==
    LET st0 == [CD_TITLE |-> "", CD_ARTIST |-> "", tracks |-> << >>,
                opentrack |-> 0, openfile |-> NULL, err |-> NoError]
    IN
    IF toLowerCase(file.ext) # ".cue" THEN [NoCD EXCEPT !.err = Error("NotCue", 0, "")]
    ELSE IF ~file.readable THEN [NoCD EXCEPT !.err = Error("CannotLoad", 0, "")]
    ELSE CHOOSE cd \in { loadCueLayout(file, st) : st \in { parseLines(st0, file.lines, 1) } } :
            TRUE

\* cd.getTrackFilePath(i): tracks[i].file ?? tracks[i].shared
getTrackFilePath(trs, i) == IF trs[i].file # NULL THEN trs[i].file ELSE trs[i].shared

\* FFMPEG.getEnc(str): null without a string, for an unknown codec and for a
\* lossy codec without a bit rate
getEnc(str) ==
    CASE str = "OPUS:64" -> [ext |-> ".opus"]
      [] str = "FLAC"    -> [ext |-> ".flac"]
      [] str = "RAW"     -> [ext |-> ".bin"]
      [] OTHER           -> NoEnc

\* let templ = null; if (APP.option.sh) ...; if (APP.option.tname) ...
templOf(option) ==
    IF option.tname # NoTemplate THEN option.tname
    ELSE IF option.sh THEN << Lit("track"), Tag("no") >>
    ELSE NoTemplate

\* createOuputDir: the path before the existence loop
outputName(cd, only) ==
    cd.CD_FILE \o " [e]" \o (IF only # NULL THEN " [only " \o only \o "]" ELSE "")

\* FS.existsSync of the path name with counter n (1: no counter)
dirExists(name, n) ==
    \E k \in 1..Len(disk) : disk[k].name = name /\ disk[k].n = n /\ ~disk[k].failed

\* createOuputDir: while (FS.existsSync(path)) { ... }
RECURSIVE uniqueNo(_, _)
uniqueNo(name, n) == IF dirExists(name, n) THEN uniqueNo(name, n + 1) ELSE n

\* An output directory without a cue file
NoCue == [name |-> NULL, lines |-> << >>]

\* Variant of noAudioTracks: a sheet is never skipped
noAudioTracks_never(trs) == FALSE

\* cd.tracks.every(t => t.isData)
noAudioTracks(trs) == \A i \in 1..Len(trs) : isData(trs[i])

\* Variant of copyData: only data tracks are copied
copyData_dataOnly(tr, ENC) == isData(tr)

\* let copyData = tr.isData || (ENC.ext == ".bin")
copyData(tr, ENC) == isData(tr) \/ ENC.ext = ".bin"

\* Variant of onlySkips: option -only skips nothing
onlySkips_never(tr, only) == FALSE

\* (tr.isData && ONLY == "audio") || (!tr.isData && ONLY == "data")
onlySkips(tr, only) == (isData(tr) /\ only = "audio") \/ (~isData(tr) /\ only = "data")

\* One turn of the loop of genTrackTask: the promise yielded for track i.
\* args are the numbers handed on: start and length for TFS.copyPart,
\* start and end for FS.createReadStream.
trackUnit(cd, names, i, ENC, only) ==
    LET tr == cd.tracks[i] IN
    IF onlySkips(tr, only)
    THEN [track |-> i, kind |-> "empty", src |-> NULL, out |-> NULL, args |-> << >>,
          status |-> "run"]
    ELSE IF copyData(tr, ENC)
    THEN [track |-> i, kind |-> "copy", src |-> getTrackFilePath(cd.tracks, i),
          out |-> names[i] \o ".bin", args |-> << tr.byteStart, tr.byteSize >>,
          status |-> "run"]
    ELSE [track |-> i, kind |-> "encode", src |-> getTrackFilePath(cd.tracks, i),
          out |-> names[i] \o ENC.ext,
          args |-> << tr.byteStart, tr.byteStart + tr.byteSize - 1 >>, status |-> "run"]

\* The executor of taskEncodeCD(file) up to the call of PromiseRun: cd is
\* the instance that cd.loadCue(file) leaves, mkdirOk is whether
\* FS.mkdirSync succeeds.  What is thrown rejects the promise.
taskEncodeCD(file, cd, mkdirOk) ==
    LET t0   == [NoTask EXCEPT !.state = "rejected", !.file = file, !.cd = cd]
        name == outputName(cd, APP.option.only)
        dir  == [name |-> name, n |-> uniqueNo(name, 1), failed |-> FALSE, cue |-> NoCue,
                 by |-> qnow]
        pf   == prepareFilenames(cd.tracks, cd.CD_TITLE, cd.CD_ARTIST, templOf(APP.option))
        t1   == [t0 EXCEPT !.outDir = Len(disk) + 1, !.names = pf.readyFiles.names]
    IN
    IF cd.err.kind # "None"
    THEN [task |-> [t0 EXCEPT !.er = thrown(cd.err)], disk |-> disk]
    ELSE IF noAudioTracks(cd.tracks)
    THEN [task |-> [t0 EXCEPT !.er = PlusMsg("CD has no Audio Tracks")], disk |-> disk]
    ELSE IF ~mkdirOk
    THEN [task |-> [t0 EXCEPT !.er = Msg("Cannot create")], disk |-> disk]
    ELSE IF pf.err.kind # "None"
    THEN [task |-> [t1 EXCEPT !.er = Msg("Template resulted in duplicate entries")],
          disk |-> Append(disk, dir)]
    ELSE [task |-> [t1 EXCEPT !.state = "tracks"], disk |-> Append(disk, dir)]

\* Variant of mapSet: the entry is not kept
mapSet_dropped(map, k, v) == map

\* Map.prototype.set(k, v) on ELOG.error / ELOG.skip
mapSet(map, k, v) == { e \in map : e.k # k } \cup { [k |-> k, v |-> v] }

\* The sheets of the queue
DataSheet ==
    << Ln("FILE", "a.bin", TRUE, << >>, "BINARY", << >>, << >>, << >>),
       Ln("TRACK", "", FALSE, <<0, 1>>, "MODE1/2352", << >>, << >>, << >>),
       Ln("INDEX", "", FALSE, <<0, 1>>, "", <<0, 0>>, <<0, 0>>, <<0, 0>>) >>

MixedSheet ==
    DataSheet \o
    << Ln("TRACK", "", FALSE, <<0, 2>>, "AUDIO", << >>, << >>, << >>),
       Ln("INDEX", "", FALSE, <<0, 1>>, "", <<0, 0>>, <<0, 1>>, <<0, 0>>) >>

BadSheet ==
    << Ln("TRACK", "", FALSE, <<0, 1>>, "AUDIO", << >>, << >>, << >>) >>

\* The paths the command line may name
QueueFiles ==
    LET dir == [n \in {"a.bin", "b.bin"} |-> IF n = "a.bin" THEN 200000 ELSE Missing] IN
    { [base |-> "DATA", ext |-> ".cue", readable |-> TRUE, lines |-> DataSheet,  dir |-> dir],
      [base |-> "GAME", ext |-> ".cue", readable |-> TRUE, lines |-> MixedSheet, dir |-> dir],
      [base |-> "BAD",  ext |-> ".cue", readable |-> TRUE, lines |-> BadSheet,   dir |-> dir] }

\* The command lines: up to MaxQueue paths
QueueInputs == UNION { [1..n -> QueueFiles] : n \in 0..MaxQueue }

\* The options of the command line: -enc, -only, -p, -sh, -tname
EncodeOptions ==
    [enc : { NULL, "OPUS:64", "RAW" }, only : { NULL, "audio", "data" }, p : { 1, 2 },
     sh : BOOLEAN, tname : { NoTemplate, << Tag("tt") >> }]

\* What the close listener of an encoder process adds to encSize (in kB)
EncodedKB == { 0, 1 }

\* The main script with action e: ONLY, the length test of APP.input, the
\* checks that panic, and the call of queueRun
EncodeAction ==
    /\ APP.state = "start"
    /\ \E opt \in EncodeOptions, ffmpegRuns \in BOOLEAN, files \in QueueInputs :
          LET option == IF opt.only = "data" THEN [opt EXCEPT !.enc = "RAW"] ELSE opt
              ENC    == getEnc(option.enc)
          IN  /\ queue' = files
              /\ IF Len(files) = 0
                 THEN /\ APP' = [state |-> "exited", option |-> option, ENC |-> NoEnc]
                      /\ ELOG' = ELOG
                 ELSE /\ ELOG' = [ELOG EXCEPT !.inputs = files]
                      /\ IF ~ffmpegRuns \/ option.enc = NULL \/ ENC = NoEnc
                         THEN APP' = [state |-> "panic", option |-> option, ENC |-> ENC]
                         ELSE APP' = [state |-> "queue", option |-> option, ENC |-> ENC]
    /\ UNCHANGED << qnow, task, disk, cdVars, tcase, info >>

\* The callback of APP.input.queueRun: called with the next input, or with
\* none after the last; with an input it runs the executor of taskEncodeCD
QueueRun ==
    /\ APP.state = "queue"
    /\ task.state = "idle"
    /\ IF queue = << >>
       THEN /\ APP' = [APP EXCEPT !.state = "exited"]
            /\ UNCHANGED << queue, task, disk >>
       ELSE \E mkdirOk \in BOOLEAN, cd \in { loadCue(Head(queue)) } :
            \E r \in { taskEncodeCD(Head(queue), cd, mkdirOk) } :
               /\ queue' = Tail(queue)
               /\ task' = r.task
               /\ disk' = r.disk
               /\ APP' = APP
    /\ UNCHANGED << qnow, ELOG, cdVars, tcase, info >>

\* Units of work that were yielded and have not ended
inFlight == { k \in 1..Len(task.units) : task.units[k].status = "run" }

\* PromiseRun takes the next promise from genTrackTask(): there are tracks
\* left, fewer than p units are under way and none has failed
TrackTaskYield ==
    /\ task.state = "tracks"
    /\ Len(task.units) < Len(task.cd.tracks)
    /\ Cardinality(inFlight) < APP.option.p
    /\ \A k \in 1..Len(task.units) : task.units[k].status # "failed"
    /\ LET i == Len(task.units) + 1
           u == trackUnit(task.cd, task.names, i, APP.ENC, APP.option.only)
       IN  task' = [task EXCEPT !.units = Append(@, u),
                                !.encSize = @ + (IF u.kind = "copy"
                                                 THEN task.cd.tracks[i].byteSize ELSE 0)]
    /\ UNCHANGED << APP, queue, qnow, ELOG, disk, cdVars, tcase, info >>

\* A unit of work ends: the empty promise resolves, a copy or an encoder
\* process ends well or fails; the close listener of the encoder adds the
\* size ffmpeg printed
TrackTaskEnd ==
    /\ task.state = "tracks"
    /\ \E k \in inFlight, ok \in BOOLEAN, kb \in EncodedKB :
          /\ task.units[k].kind = "empty" => ok
          /\ task.units[k].kind # "encode" => kb = 0
          /\ task' = [task EXCEPT !.units[k].status = IF ok THEN "ok" ELSE "failed",
                                  !.encSize = @ + kb * 1024]
    /\ UNCHANGED << APP, queue, qnow, ELOG, disk, cdVars, tcase, info >>

\* PromiseRun rejects with the errors of its units: a string from
\* TFS.copyPart, the logExit object from Proc2
TracksFailed ==
    /\ task.state = "tracks"
    /\ \E k \in 1..Len(task.units) :
          /\ task.units[k].status = "failed"
          /\ task' = [task EXCEPT !.state = "failing",
                                  !.er = << IF task.units[k].kind = "copy"
                                            THEN Msg("copyPart") ELSE NotAString >>]
    /\ UNCHANGED << APP, queue, qnow, ELOG, disk, cdVars, tcase, info >>

\* The then callback of PromiseRun: every unit has ended well; the new cue
\* file is written, or the callback throws an array with one string
TracksDone ==
    /\ task.state = "tracks"
    /\ Len(task.units) = Len(task.cd.tracks)
    /\ \A k \in 1..Len(task.units) : task.units[k].status = "ok"
    /\ \E writeOk \in BOOLEAN :
          LET cd   == task.cd
              cuef == cd.CD_FILE \o (IF APP.option.only # NULL THEN " (partial)" ELSE "")
                      \o ".cue"
              c    == buildCue(cd.tracks, cd.CD_TITLE, cd.CD_ARTIST, task.names, APP.ENC.ext)
          IN  IF writeOk
              THEN /\ disk' = [disk EXCEPT ![task.outDir].cue = [name |-> cuef, lines |-> c]]
                   /\ ELOG' = [ELOG EXCEPT !.success = @ + 1, !.size0 = @ + cd.CD_SIZE,
                                           !.size1 = @ + task.encSize]
                   /\ task' = [task EXCEPT !.state = "resolved"]
              ELSE /\ task' = [task EXCEPT !.state = "failing",
                                           !.er = << Msg("Failed to write") >>]
                   /\ UNCHANGED << disk, ELOG >>
    /\ UNCHANGED << APP, queue, qnow, cdVars, tcase, info >>

\* The catch callback of taskEncodeCD: FS.renameSync of the output
\* directory, then rej with the first error or with the FFmpeg text.  When
\* renameSync throws the callback ends there: neither rej nor res is called.
TaskCatch ==
    /\ task.state = "failing"
    /\ \E renameOk \in BOOLEAN :
          IF renameOk
          THEN /\ disk' = [disk EXCEPT ![task.outDir].failed = TRUE]
               /\ task' = [task EXCEPT !.state = "rejected",
                                       !.er = IF task.er[1].isString THEN task.er[1]
                                              ELSE Msg("FFmpeg general error")]
          ELSE /\ disk' = disk
               /\ task' = [task EXCEPT !.state = "pending"]
    /\ UNCHANGED << APP, queue, qnow, ELOG, cdVars, tcase, info >>

\* The catch callback of the queue: er.charAt(0) == "+" puts the input in
\* ELOG.skip, else in ELOG.error; er.charAt of a value that is no string
\* throws, and the then callback that follows is never called
QueueCatch ==
    /\ task.state = "rejected"
    /\ IF ~task.er.isString
       THEN /\ task' = [task EXCEPT !.state = "pending"]
            /\ ELOG' = ELOG
       ELSE /\ task' = [task EXCEPT !.state = "caught"]
            /\ ELOG' = IF task.er.plus
                       THEN [ELOG EXCEPT !.skip = mapSet(@, qnow, task.er.text)]
                       ELSE [ELOG EXCEPT !.error = mapSet(@, qnow, task.er.text)]
    /\ UNCHANGED << APP, queue, qnow, disk, cdVars, tcase, info >>

\* The then callback of the queue: qnow++; next()
QueueThen ==
    /\ task.state \in { "resolved", "caught" }
    /\ qnow' = qnow + 1
    /\ task' = NoTask
    /\ UNCHANGED << APP, queue, ELOG, disk, cdVars, tcase, info >>

NextEncode ==
    \/ EncodeAction \/ QueueRun \/ TrackTaskYield \/ TrackTaskEnd \/ TracksFailed
    \/ TracksDone \/ TaskCatch \/ QueueCatch \/ QueueThen

SpecEncode == Init /\ [][NextEncode]_vars

\* Every callback that can run does run: the event loop of the process
\* leaves no ready callback waiting for ever
SpecEncodeFair == SpecEncode /\ WF_vars(NextEncode)

-----------------------------------------------------------------------------
(* cbae.js: the info action on one input.  After cd.loadCue(inp) it prints  *)
(* the sizes of the disc, then takes the tracks one by one from a copy of    *)
(* cd.tracks and calls FilePartSHA1 for each.                                *)

MaxInfoWork == 8    \* loadCue calls plus sheet lines of the info action

InfoLines ==
    { Ln("FILE", "a.bin", TRUE, << >>, "BINARY", << >>, << >>, << >>),
      Ln("FILE", "b.bin", TRUE, << >>, "BINARY", << >>, << >>, << >>),
      Ln("TRACK", "", FALSE, <<0, 1>>, "MODE1/2352", << >>, << >>, << >>),
      Ln("TRACK", "", FALSE, <<0, 1>>, "AUDIO", << >>, << >>, << >>),
      Ln("TRACK", "", FALSE, <<0, 2>>, "AUDIO", << >>, << >>, << >>),
      Ln("TRACK", "", FALSE, <<0, 3>>, "AUDIO", << >>, << >>, << >>),
      Ln("INDEX", "", FALSE, <<0, 1>>, "", <<0, 0>>, <<0, 0>>, <<0, 0>>),
      Ln("INDEX", "", FALSE, <<0, 1>>, "", <<0, 0>>, <<0, 1>>, <<0, 0>>) }

InfoFileSystems ==
    { [n \in {"a.bin", "b.bin"} |-> IF n = "a.bin" THEN 200000 ELSE 9408] }

\* Variant of getAudioSize: the data tracks are counted as well
RECURSIVE getAudioSize_everyTrack(_)
getAudioSize_everyTrack(trs) ==
    IF trs = << >> THEN 0
    ELSE getAudioSize_everyTrack(SubSeq(trs, 1, Len(trs) - 1)) + trs[Len(trs)].byteSize

\* cdinfos.getAudioSize: tracks.reduce((p, c) => p + (c.isData ? 0 : c.byteSize), 0)
RECURSIVE getAudioSize(_)
getAudioSize(trs) ==
    IF trs = << >> THEN 0
    ELSE getAudioSize(SubSeq(trs, 1, Len(trs) - 1))
         + (IF isData(trs[Len(trs)]) THEN 0 ELSE trs[Len(trs)].byteSize)

\* Variant of trackIndex: the place of the track in the list
trackIndex_position(trs, i) == i - 1

\* The argument the info action gives to getTrackFilePath for the track at
\* place i of the list: tr.no - 1
trackIndex(trs, i) == trs[i].no - 1

\* FilePartSHA1(source, readStart, readLen): the first and the last byte read
filePartRange(srcSize, readStart, readLen) ==
    LET len == IF readLen = 0 THEN srcSize - readStart ELSE readLen
    IN  << readStart, readStart + len - 1 >>

\* The first lines of the callback after a loadCue that returned: the sizes
\* it prints
InfoHeader ==
    /\ pc = "loaded"
    /\ info.state = "none"
    /\ LET auds == getAudioSize(tracks) IN
       info' = [state |-> "shown", size |-> CD_SIZE, data |-> CD_SIZE - auds,
                audio |-> auds, sha |-> << >>]
    /\ UNCHANGED << cdVars, tcase, APP, queue, qnow, ELOG, task, disk >>

\* The callback of [...cd.tracks].queueRun for the next track tr:
\* FilePartSHA1(cd.getTrackFilePath(tr.no - 1), tr.byteStart, tr.byteSize).
\* this.tracks[k] of a k outside the list is undefined, and reading its file
\* throws a TypeError that nothing catches.
InfoTrack ==
    /\ pc = "loaded"
    /\ info.state = "shown"
    /\ Len(info.sha) < Len(tracks)
    /\ LET i  == Len(info.sha) + 1
           tr == tracks[i]
           k  == trackIndex(tracks, i)
       IN  IF k + 1 \notin 1..Len(tracks)
           THEN info' = [info EXCEPT !.state = "crashed"]
           ELSE LET src == getTrackFilePath(tracks, k + 1) IN
                info' = [info EXCEPT !.sha = Append(@,
                            [track |-> i, src |-> src,
                             range |-> filePartRange(fs[src], tr.byteStart, tr.byteSize)])]
    /\ UNCHANGED << cdVars, tcase, APP, queue, qnow, ELOG, task, disk >>

InfoBegin == LoadCueCall(MaxInfoWork) /\ UNCHANGED sheet

InfoLine == LoadCueLine(InfoLines, MaxInfoWork) /\ UNCHANGED sheet

InfoFinish == LoadCueLayout(InfoFileSystems) /\ UNCHANGED sheet

NextInfo == InfoBegin \/ InfoLine \/ InfoFinish \/ InfoHeader \/ InfoTrack

SpecInfo == Init /\ [][NextInfo]_vars

-----------------------------------------------------------------------------
(* Sheets with comments and with lines of other keywords *)

MaxNoteWork == 7    \* loadCue calls plus sheet lines

NoteLines ==
    { Ln("REM", "", FALSE, << >>, "", << >>, << >>, << >>),
      Ln("rem", "", FALSE, << >>, "", << >>, << >>, << >>),
      Ln("REMARK", "", FALSE, << >>, "", << >>, << >>, << >>),
      Ln(";", "", FALSE, << >>, "", << >>, << >>, << >>),
      Ln("FLAGS", "", FALSE, << >>, "", << >>, << >>, << >>),
      Ln("CATALOG", "", FALSE, << >>, "", << >>, << >>, << >>),
      Ln("TITLE", "Quake", TRUE, << >>, "", << >>, << >>, << >>),
      Ln("PERFORMER", "id", TRUE, << >>, "", << >>, << >>, << >>),
      Ln("FILE", "a.bin", TRUE, << >>, "BINARY", << >>, << >>, << >>),
      Ln("TRACK", "", FALSE, <<0, 1>>, "AUDIO", << >>, << >>, << >>),
      Ln("INDEX", "", FALSE, <<0, 1>>, "", <<0, 0>>, <<0, 0>>, <<0, 0>>) }

NoteBegin == LoadCueCall(MaxNoteWork) /\ UNCHANGED sheet

NoteLine == LoadCueLine(NoteLines, MaxNoteWork) /\ UNCHANGED sheet

NoteFinish == LoadCueLayout(FileSystems) /\ UNCHANGED sheet

NextNote == NoteBegin \/ NoteLine \/ NoteFinish

SpecNote == Init /\ [][NextNote]_vars

-----------------------------------------------------------------------------
(* loadCue called again on an instance whose call failed *)

MaxReloadWork == 7    \* loadCue calls plus sheet lines

ReloadLines ==
    { Ln("TITLE", "Quake", TRUE, << >>, "", << >>, << >>, << >>),
      Ln("PERFORMER", "id", TRUE, << >>, "", << >>, << >>, << >>),
      Ln("FILE", "a.bin", TRUE, << >>, "BINARY", << >>, << >>, << >>),
      Ln("TRACK", "", FALSE, <<0, 1>>, "AUDIO", << >>, << >>, << >>),
      Ln("INDEX", "", FALSE, <<0, 1>>, "", <<0, 0>>, <<0, 0>>, <<0, 0>>) }

\* The call reads the sheet anew: getFileLines(input)
ReloadBegin == LoadCueCall(MaxReloadWork) /\ sheet' = << >>

ReloadLine == LoadCueLine(ReloadLines, MaxReloadWork) /\ sheet' = Append(sheet, line')

ReloadFinish == LoadCueLayout(FileSystems) /\ UNCHANGED sheet

NextReload == ReloadBegin \/ ReloadLine \/ ReloadFinish

SpecReload == Init /\ [][NextReload]_vars

-----------------------------------------------------------------------------
(* Vocabulary of the properties *)

\* The position of the track whose file track i lies in: the nearest track
\* at or before i that declares a file (0 if there is none)
OwnerOf(trs, i) ==
    LET S == { j \in 1..i : trs[j].file # NULL } IN
    IF S = { } THEN 0 ELSE CHOOSE j \in S : \A k \in S : k <= j

\* The tracks of the physical-file group of owner track o
GroupOf(trs, o) == { i \in o..Len(trs) : OwnerOf(trs, i) = o }

\* The index of a track that carries number n
IndexNumbered(tr, n) == tr.indexes[CHOOSE k \in 1..Len(tr.indexes) : tr.indexes[k].no = n]

RECURSIVE SumByteSize(_, _)
SumByteSize(trs, S) ==
    IF S = { } THEN 0
    ELSE LET i == CHOOSE x \in S : TRUE
         IN  trs[i].byteSize + SumByteSize(trs, S \ { i })

\* The step just taken handed a line to the parsing loop / ran the end of loadCue
LineStep   == pc = "parsing" /\ work' = work + 1
FinishStep == pc = "parsing" /\ work' = work /\ pc' # "parsing"

Keyword(ln) == toUpperCase(ln.kw)

-----------------------------------------------------------------------------
C3_RangesInsideFile ==
    loaded =>
        \A i \in 1..Len(tracks) :
            /\ tracks[i].byteSize >= 0
            /\ tracks[i].byteStart + tracks[i].byteSize
                    <= fs[tracks[OwnerOf(tracks, i)].file]

C5_FirstTrackHasFile ==
    [][ /\ (LineStep /\ Keyword(line') = "TRACK" /\ openfile = NULL /\ tracks = << >>) =>
                pc' = "failed" /\ err'.kind = "NoFile" /\ tracks' = << >>
        /\ tracks' # << >> => tracks'[1].file # NULL
        /\ err'.kind # "TypeError"
      ]_vars

\* A load that failed at a TRACK line that no FILE line preceded
C5_Witness ==
    /\ pc = "failed" /\ err.kind = "NoFile" /\ Keyword(line) = "TRACK"
    /\ tracks = << >> /\ openfile = NULL

(* C6: a TRACK line whose number equals, as an integer, the number of a    *)
(* track of the list fails and adds no track; the track numbers of the     *)
(* list are pairwise distinct in every reachable state.                    *)
C6_TrackNumbersDistinct ==
    [][ /\ ( /\ LineStep /\ Keyword(line') = "TRACK" /\ line'.num # << >>
             /\ \E k \in 1..Len(tracks) : tracks[k].no = parseInt(line'.num) ) =>
                pc' = "failed" /\ tracks' = tracks
        /\ \A j, k \in 1..Len(tracks') : j # k => tracks'[j].no # tracks'[k].no
      ]_vars

\* A load that failed at "TRACK 1" or "TRACK 01" repeating the number of the
\* first of two tracks
C6_Witness ==
    /\ pc = "failed" /\ err.kind = "DupTrack" /\ Keyword(line) = "TRACK"
    /\ Len(tracks) = 2 /\ tracks[1].no = parseInt(line.num)

(* C7: an INDEX line whose index number already exists among the indexes   *)
(* of the open track fails and appends nothing; the index numbers within   *)
(* one track are pairwise distinct in every reachable state.               *)
C7_IndexNumbersDistinct ==
    [][ /\ ( /\ LineStep /\ Keyword(line') = "INDEX" /\ line'.num # << >>
             /\ opentrack # 0
             /\ \E j \in 1..Len(tracks[opentrack].indexes) :
                    tracks[opentrack].indexes[j].no = parseInt(line'.num) ) =>
                pc' = "failed" /\ tracks' = tracks
        /\ \A k \in 1..Len(tracks') :
              \A i, j \in 1..Len(tracks'[k].indexes) :
                  i # j => tracks'[k].indexes[i].no # tracks'[k].indexes[j].no
      ]_vars

\* A load that failed at an INDEX line repeating the second index of a track
C7_Witness ==
    /\ pc = "failed" /\ err.kind = "DupIndex" /\ Keyword(line) = "INDEX"
    /\ opentrack # 0 /\ Len(tracks[opentrack].indexes) = 2
    /\ tracks[opentrack].indexes[2].no = parseInt(line.num)

(* C8: a FILE line (quoted name, then a type) whose type is not one of     *)
(* BINARY and WAVE fails with the unsupported-file-type error and leaves   *)
(* the pending file name and the track list unchanged.                     *)
C8_FileTypeAllowList ==
    [][ ( /\ LineStep /\ Keyword(line') = "FILE"
          /\ line'.quoted /\ line'.text # "" /\ line'.type # ""
          /\ line'.type \notin {"BINARY", "WAVE"} ) =>
            /\ pc' = "failed" /\ err'.kind = "BadFileType" /\ err'.txt = line'.type
            /\ openfile' = openfile /\ tracks' = tracks
      ]_vars

\* A load that failed at a FILE line of type binary while a file was pending
C8_Witness ==
    /\ pc = "failed" /\ err.kind = "BadFileType" /\ line.type = "binary"
    /\ openfile # NULL

(* C9: a TRACK line whose type is not a key of the sector-size table fails *)
(* and adds no track; every track of the list has a type the table gives a *)
(* sector size for.                                                        *)
C9_TrackTypeInTable ==
    [][ /\ ( /\ LineStep /\ Keyword(line') = "TRACK" /\ line'.type # ""
             /\ toUpperCase(line'.type) \notin DOMAIN sectorsByType ) =>
                pc' = "failed" /\ tracks' = tracks
        /\ \A k \in 1..Len(tracks') : tracks'[k].type \in DOMAIN sectorsByType
      ]_vars

\* A load that failed at a TRACK line of an unknown type, after a valid track
C9_Witness ==
    /\ pc = "failed" /\ err.kind = "BadTrackType" /\ err.txt = "MODE9"
    /\ Len(tracks) = 1

(* C10: an INDEX or PREGAP line processed before any TRACK line has been   *)
(* accepted fails with the 'track not defined' error and changes nothing   *)
(* of the parser state.                                                    *)
C10_IndexNeedsTrack ==
    [][ ( LineStep /\ Keyword(line') \in {"INDEX", "PREGAP"} /\ tracks = << >> ) =>
            /\ pc' = "failed" /\ err'.kind = "NoTrack"
            /\ UNCHANGED << CD_TITLE, CD_ARTIST, tracks, opentrack, openfile >>
      ]_vars

\* A load that failed at a PREGAP line read after a FILE line and before any TRACK
C10_Witness ==
    /\ pc = "failed" /\ err.kind = "NoTrack" /\ Keyword(line) = "PREGAP"
    /\ tracks = << >> /\ openfile # NULL


-----------------------------------------------------------------------------
(* Claims about file sharing and the file existence check                   *)

\* C11: after a successful loadCue every track has exactly one of file and
\* shared set, and the shared of a track without a file is the file name of
\* the nearest track before it that declares a file.
C11_FileXorShared ==
    loaded =>
        \A i \in 1..Len(tracks) :
            /\ (tracks[i].file # NULL) # (tracks[i].shared # NULL)
            /\ tracks[i].shared # NULL =>
                   \E j \in 1..(i - 1) :
                       /\ tracks[j].file # NULL
                       /\ \A k \in (j + 1)..(i - 1) : tracks[k].file = NULL
                       /\ tracks[i].shared = tracks[j].file

\* A loaded sheet of two files where the last track shares the second file
C11_Witness ==
    /\ loaded /\ Len(tracks) = 3
    /\ tracks[1].file = "a.bin" /\ tracks[2].file = "b.bin"
    /\ tracks[3].file = NULL /\ tracks[3].shared = "b.bin"

\* The file names of the tracks that declare a file, in track order
RECURSIVE DeclaredFiles(_)
DeclaredFiles(trs) ==
    IF trs = << >> THEN << >>
    ELSE (IF Head(trs).file # NULL THEN << Head(trs).file >> ELSE << >>)
         \o DeclaredFiles(Tail(trs))

\* The run of the layout pass: the call leaves the parsing loop with a track
\* list that passed the checks made before the pass
LayoutStep == FinishStep /\ err'.kind \notin {"NoTracks", "NoIndex"}

\* C12: when a declared file is absent from the directory loadCue fails with
\* the file-not-found error for the first such file in track order; the
\* directory is asked once for each file-declaring track up to there, in
\* track order, and never for a track that shares a file.
C12_MissingFileFails ==
    [][ LayoutStep =>
          LET D    == DeclaredFiles(tracks)
              miss == { k \in 1..Len(D) : fs'[D[k]] = Missing }
          IN  IF miss = {}
              THEN err'.kind # "FileMissing" /\ queried' = D
              ELSE LET k == CHOOSE m \in miss : \A n \in miss : m <= n
                   IN  /\ pc' = "failed" /\ ~loaded'
                       /\ err'.kind = "FileMissing" /\ err'.txt = D[k]
                       /\ queried' = SubSeq(D, 1, k)
      ]_vars

\* The second file of a sheet is absent; a track before it shares the first
C12_Witness ==
    /\ pc = "failed" /\ err.kind = "FileMissing" /\ err.txt = "b.bin"
    /\ Len(tracks) = 3 /\ tracks[2].file = NULL
    /\ queried = << "a.bin", "b.bin" >>

-----------------------------------------------------------------------------
(* Claims about calling loadCue again                                       *)

\* A loadCue call is made: the caller is not inside one, and the call is counted
CallStep == pc # "parsing" /\ work' = work + 1

\* C13: once a loadCue call on the instance has succeeded, every later call
\* is rejected with the 'loading again' error and leaves the track list,
\* CD_SIZE, the disc title and the disc performer as they were.
C13_LoadAgainRejected ==
    [][ ( CallStep /\ loaded ) =>
            /\ pc' = "failed" /\ err'.kind = "LoadAgain"
            /\ UNCHANGED << tracks, CD_SIZE, CD_TITLE, CD_ARTIST >>
      ]_vars

\* A second call on a loaded instance has been rejected
C13_Witness == loaded /\ pc = "failed" /\ err.kind = "LoadAgain" /\ CD_SIZE > 0

-----------------------------------------------------------------------------
(* Claims about time codes                                                  *)

\* C14: for every frame count f >= 0, a cuetime set by fromFrames(f) has
\* seconds < 60 and frames < 75, and its toFrames() gives f back.
C14_FramesRoundTrip ==
    /\ tcase.set  => /\ tcase.t.seconds \in 0..59
                     /\ tcase.t.frames \in 0..74
                     /\ tcase.t.minutes >= 0
    /\ tcase.read => tcase.out = tcase.f

\* A frame count of more than a minute, with seconds and frames to carry
C14_Witness ==
    /\ tcase.read /\ tcase.f = 4500 + (59 * 75) + 74
    /\ tcase.t.minutes = 1 /\ tcase.t.seconds = 59 /\ tcase.t.frames = 74

-----------------------------------------------------------------------------
(* Claims about the spelling of lines                                       *)

\* The time codes a track carries: its indexes and its pregap, if any
TimeCodesOf(tr) == { tr.indexes[k] : k \in 1..Len(tr.indexes) }
                   \cup { tr.pregap[k] : k \in 1..Len(tr.pregap) }

\* A timestamp whose fields have one or two digits each and whose seconds
\* and frames are in range
WellTimed(ln) ==
    /\ Len(ln.m) \in 1..2 /\ Len(ln.s) \in 1..2 /\ Len(ln.f) \in 1..2
    /\ parseInt(ln.s) < 60 /\ parseInt(ln.f) < 75

\* C15: every time code made from an accepted INDEX or PREGAP line has
\* seconds < 60 and frames < 75, and a line of an open track whose seconds or
\* frames are out of range, or whose fields have a wrong number of digits, is
\* rejected with a syntax error.
C15_TimeCodesInRange ==
    [][ ( LineStep /\ Keyword(line') \in {"INDEX", "PREGAP"} /\ opentrack # 0 ) =>
            /\ pc' = "parsing" =>
                  \A i \in 1..Len(tracks') : \A t \in TimeCodesOf(tracks'[i]) :
                      t.seconds < 60 /\ t.frames < 75
            /\ ~WellTimed(line') => ( pc' = "failed" /\ err'.kind = "Syntax" )
      ]_vars

\* C16: every track the parser creates has a number in 1..99, and a TRACK
\* line whose number is outside 1..99 creates no track.
C16_TrackNumberRange ==
    [][ ( LineStep /\ Keyword(line') = "TRACK" ) =>
            /\ \A i \in 1..Len(tracks') : tracks'[i].no \in 1..99
            /\ parseInt(line'.num) \notin 1..99 => tracks' = tracks
      ]_vars

\* The line with its keyword and its type token in upper case
Canon(ln) == [ln EXCEPT !.kw = toUpperCase(ln.kw), !.type = toUpperCase(ln.type)]

\* C17: when a FILE or TRACK line written with an upper-case keyword and type
\* is accepted, the same line with the keyword or the type in another letter
\* case is accepted too, with the same file name and the same tracks stored.
C17_CaseInsensitive ==
    [][ ( /\ LineStep /\ Keyword(line') \in {"FILE", "TRACK"}
          /\ cueParser(ParserState, Canon(line')).err.kind = "None" ) =>
            /\ pc' = "parsing"
            /\ tracks' = cueParser(ParserState, Canon(line')).tracks
            /\ openfile' = cueParser(ParserState, Canon(line')).openfile
      ]_vars

\* C18: the text of an accepted quoted TITLE or PERFORMER argument, and the
\* name of an accepted FILE line, are stored in the letter case of the line.
C18_TextKeepsCase ==
    [][ ( LineStep /\ line'.quoted /\ pc' = "parsing" ) =>
            /\ Keyword(line') = "TITLE" =>
                  IF opentrack # 0 THEN tracks'[opentrack].title = line'.text
                                   ELSE CD_TITLE' = line'.text
            /\ Keyword(line') = "PERFORMER" =>
                  IF opentrack # 0 THEN tracks'[opentrack].artist = line'.text
                                   ELSE CD_ARTIST' = line'.text
            /\ Keyword(line') = "FILE" => openfile' = line'.text
      ]_vars

\* C19: an accepted TITLE (PERFORMER) line sets the title (performer) of the
\* open track and nothing else of the disc or of the tracks when a track is
\* open, and the title (performer) of the disc and nothing of the tracks when
\* no TRACK line has been accepted yet.
C19_TitleTarget ==
    [][ ( LineStep /\ Keyword(line') \in {"TITLE", "PERFORMER"} /\ pc' = "parsing" ) =>
            LET field == IF Keyword(line') = "TITLE" THEN "title" ELSE "artist" IN
            /\ opentrack # 0 =>
                  /\ tracks'[opentrack][field] # NULL
                  /\ tracks' = [tracks EXCEPT ![opentrack][field] = tracks'[opentrack][field]]
                  /\ UNCHANGED << CD_TITLE, CD_ARTIST, opentrack, openfile >>
            /\ tracks = << >> =>
                  /\ tracks' = tracks
                  /\ IF field = "title" THEN CD_ARTIST' = CD_ARTIST ELSE CD_TITLE' = CD_TITLE
                  /\ UNCHANGED << opentrack, openfile >>
      ]_vars

\* The second of two tracks has been given a title; the first and the disc have none
C19_Witness ==
    /\ pc = "parsing" /\ Keyword(line) = "TITLE" /\ Len(tracks) = 2 /\ opentrack = 2
    /\ tracks[2].title # NULL /\ tracks[1].title = NULL /\ CD_TITLE = ""

-----------------------------------------------------------------------------
(* Claims about the disc size, and about FILE and TRACK lines               *)

\* The sum of the sizes, in directory dir, of the files named in the set S
RECURSIVE SumFileSize(_, _)
SumFileSize(dir, S) ==
    IF S = { } THEN 0
    ELSE LET n == CHOOSE x \in S : TRUE
         IN  dir[n] + SumFileSize(dir, S \ { n })

\* C21: after a successful loadCue, CD_SIZE is the sum of the sizes of the
\* distinct files the sheet names: a file named by more than one FILE line
\* counts once.
C21_SizeOfDistinctFiles ==
    loaded =>
        LET D == DeclaredFiles(tracks) IN
        CD_SIZE = SumFileSize(fs, { D[k] : k \in 1..Len(D) })

\* C29: after an accepted FILE line and until the next accepted TRACK line no
\* track is open: TITLE, PERFORMER, INDEX and PREGAP lines change no track, an
\* INDEX or PREGAP line fails, and a TITLE or PERFORMER line sets the disc's.
C29_FileClosesTrack ==
    [][ ( /\ LineStep /\ openfile # NULL
          /\ Keyword(line') \in {"TITLE", "PERFORMER", "INDEX", "PREGAP"} ) =>
            /\ tracks' = tracks
            /\ Keyword(line') \in {"INDEX", "PREGAP"} => pc' = "failed"
            /\ ( Keyword(line') = "TITLE" /\ pc' = "parsing" ) => CD_TITLE' # ""
            /\ ( Keyword(line') = "PERFORMER" /\ pc' = "parsing" ) => CD_ARTIST' # ""
      ]_vars

\* C30: an accepted FILE line makes its name the pending file; an accepted
\* TRACK line gives the new track the pending file, or null when there is
\* none, and clears it; no other line touches the pending file.  So a track
\* gets the name of the latest FILE line exactly when no TRACK line was
\* accepted since, and no FILE line serves two tracks.
C30_TrackTakesPendingFile ==
    [][ ( LineStep /\ pc' = "parsing" ) =>
            /\ Keyword(line') = "FILE" => ( openfile' = line'.text /\ tracks' = tracks )
            /\ Keyword(line') = "TRACK" =>
                  /\ Len(tracks') = Len(tracks) + 1
                  /\ SubSeq(tracks', 1, Len(tracks)) = tracks
                  /\ tracks'[Len(tracks')].file = openfile
                  /\ openfile' = NULL
            /\ Keyword(line') \notin {"FILE", "TRACK"} =>
                  ( openfile' = openfile /\ Len(tracks') = Len(tracks) )
      ]_vars

\* A second TRACK line followed the first without a FILE line in between
C30_Witness ==
    /\ pc = "parsing" /\ Keyword(line) = "TRACK" /\ Len(tracks) = 2
    /\ tracks[1].file = "a.bin" /\ tracks[2].file = NULL /\ openfile = NULL

-----------------------------------------------------------------------------
(* Claims about the new sheet and the names of the new files                *)

\* The positions of the FILE lines of a list of lines, in order
RECURSIVE FilePositions(_, _)
FilePositions(b, k) ==
    IF k > Len(b) THEN << >>
    ELSE (IF b[k].kw = "FILE" THEN << k >> ELSE << >>) \o FilePositions(b, k + 1)

\* The lines of b from its i-th FILE line up to the next FILE line or the end
Block(b, i) ==
    LET fp == FilePositions(b, 1) IN
    SubSeq(b, fp[i], IF i < Len(fp) THEN fp[i + 1] - 1 ELSE Len(b))

OfKind(b, kw) == SelectSeq(b, LAMBDA x : x.kw = kw)

\* mm:ss:ff of a count r of frames, each field written with two digits at
\* least; for r < 0 the fields are what floor and the remainder of
\* JavaScript make of it
RelTimeText(r) ==
    IF r >= 0
    THEN pad2(r \div 4500) \o ":" \o pad2((r % 4500) \div 75) \o ":" \o pad2(r % 75)
    ELSE pad2(r \div 4500) \o ":" \o pad2((0 - ((0 - r) % 4500)) \div 75)
                           \o ":" \o pad2(0 - ((0 - r) % 75))

KindsOf(tr) ==
    << "FILE" >>
    \o (IF tr.title # NULL  THEN << "TITLE" >> ELSE << >>)
    \o (IF tr.artist # NULL THEN << "PERFORMER" >> ELSE << >>)
    \o << "TRACK" >>
    \o (IF tr.pregap # << >> THEN << "PREGAP" >> ELSE << >>)
    \o [k \in 1..Len(tr.indexes) |-> "INDEX"]

\* A buildCueFileForCBAE call has returned new lines
BuildStep == pc = "loaded" /\ newcue' # newcue

\* C23: buildCueFileForCBAE emits for every track, in track order, one FILE
\* line (name.bin BINARY for a data track, name + extension with the
\* upper-cased extension as tag for an AUDIO track), TITLE and PERFORMER only
\* if the track has them, one TRACK line, PREGAP only if set and with the
\* timestamp as parsed, and one INDEX line per index in list order.
C23_LinesPerTrack ==
    [][ BuildStep =>
          /\ Len(FilePositions(newcue', 1)) = Len(tracks)
          /\ \A i \in 1..Len(tracks) :
                LET blk == Block(newcue', i)
                    tr  == tracks[i]
                    fn  == readyFiles'.names[i]
                IN  /\ [k \in 1..Len(blk) |-> blk[k].kw] = KindsOf(tr)
                    /\ IF tr.type # "AUDIO"
                       THEN blk[1].text = fn \o ".bin" /\ blk[1].type = "BINARY"
                       ELSE \/ blk[1].text = fn \o ".opus" /\ blk[1].type = "OPUS"
                            \/ blk[1].text = fn \o ".bin"  /\ blk[1].type = "BIN"
                    /\ \A x \in { OfKind(blk, "TITLE")[k] : k \in 1..Len(OfKind(blk, "TITLE")) } :
                          x.text = tr.title
                    /\ \A x \in { OfKind(blk, "PERFORMER")[k] :
                                    k \in 1..Len(OfKind(blk, "PERFORMER")) } :
                          x.text = tr.artist
                    /\ OfKind(blk, "TRACK")[1].no = pad2(tr.no)
                    /\ OfKind(blk, "TRACK")[1].type = tr.type
                    /\ tr.pregap # << >> =>
                          OfKind(blk, "PREGAP")[1].time =
                              pad2(tr.pregap[1].minutes) \o ":" \o pad2(tr.pregap[1].seconds)
                              \o ":" \o pad2(tr.pregap[1].frames)
                    /\ \A k \in 1..Len(tr.indexes) :
                          OfKind(blk, "INDEX")[k].no = pad2(tr.indexes[k].no)
      ]_vars

\* The new sheet of a disc with a data track and an audio track that has a
\* title, a performer and a pregap
C23_Witness ==
    /\ newcue # << >> /\ Len(tracks) = 2 /\ tracks[1].type = "MODE1/2352"
    /\ tracks[2].title # NULL /\ tracks[2].artist # NULL /\ tracks[2].pregap # << >>
    /\ Len(Block(newcue, 1)) = 3 /\ Len(Block(newcue, 2)) = 6
    /\ Block(newcue, 2)[5].kw = "PREGAP" /\ Block(newcue, 2)[5].time = "00:02:00"

\* A prepareFilenames call has been made (by the caller, or by
\* buildCueFileForCBAE when readyFiles was null)
PrepareStep == pc = "loaded" /\ << readyFiles, template >>' # << readyFiles, template >>

C25_DuplicateNames ==
    [][ PrepareStep =>
          LET names == readyFiles'.names
              dup   == \E i, j \in 1..Len(names) : i # j /\ names[i] = names[j]
          IN  /\ ~readyFiles'.isNull /\ Len(names) = Len(tracks)
              /\ dup => err'.kind = "DupNames"
              /\ ~dup => err'.kind = "None"
              /\ template'.arg = << Lit("track"), Tag("no") >> =>
                    \A i \in 1..Len(tracks) : names[i] = "track" \o pad2(tracks[i].no)
      ]_vars

\* Two titles that differ only in characters the sanitizer drops
C25_Witness ==
    /\ pc = "loaded" /\ err.kind = "DupNames" /\ Len(tracks) = 2
    /\ tracks[1].title = "Q:1" /\ tracks[2].title = "Q1?"
    /\ readyFiles.names = << "Q1", "Q1" >>

\* The sheet of a path loads and none of its tracks is of type AUDIO
OnlyDataTracks(file) ==
    \E cd \in { loadCue(file) } :
        cd.err.kind = "None" /\ \A i \in 1..Len(cd.tracks) : cd.tracks[i].type # "AUDIO"

\* The positions (from 0) of the inputs whose sheet has no AUDIO track
DataOnlyInputs == { k \in 0..(Len(ELOG.inputs) - 1) : OnlyDataTracks(ELOG.inputs[k + 1]) }

(* C27: for an input whose sheet has no track of type AUDIO the encode     *)
(* task makes no output directory, yields no unit of work and writes no    *)
(* cue file: the step that starts it leaves the directories as they are    *)
(* and ends with a rejection that begins with "+"; the input is put in     *)
(* ELOG.skip, never in ELOG.error, and ELOG.success counts only cue files  *)
(* written for other inputs; this holds under every value of -only.        *)
C27_NoAudioSkipped ==
    /\ [][ (task.state = "idle" /\ task'.state # "idle" /\ qnow \in DataOnlyInputs) =>
              /\ disk' = disk
              /\ task'.state = "rejected" /\ task'.er.isString /\ task'.er.plus
              /\ task'.units = << >>
         ]_vars
    /\ [](\A k \in DataOnlyInputs :
              /\ \A d \in 1..Len(disk) : disk[d].by # k
              /\ \A e \in ELOG.error : e.k # k
              /\ (k < qnow => \E e \in ELOG.skip : e.k = k)
              /\ (qnow = k => task.units = << >>))
    /\ [](ELOG.success = Cardinality({ d \in 1..Len(disk) : disk[d].cue # NoCue }))

\* Under option -only, a sheet without AUDIO tracks was skipped and the
\* other input was encoded
C27_Witness ==
    /\ APP.state = "exited" /\ qnow = 2
    /\ APP.option.only = "data"
    /\ \E e \in ELOG.skip : e.k \in DataOnlyInputs /\ e.v = "CD has no Audio Tracks"
    /\ ELOG.success = 1 /\ ELOG.error = {}

(* C28: the units of work of an encode task are yielded one per track in   *)
(* track order, and all of them when the task ends well: the unit of a     *)
(* data track is empty under -only audio and else a copy of byteSize bytes *)
(* from byteStart of the track's source file; the unit of an AUDIO track   *)
(* is empty under -only data, else a copy when the encoder is RAW, else a  *)
(* run of the encoder over the same bytes.                                 *)
C28_OneUnitPerTrack ==
    /\ Len(task.units) <= Len(task.cd.tracks)
    /\ (task.state = "resolved" => Len(task.units) = Len(task.cd.tracks))
    /\ \A k \in 1..Len(task.units) :
          LET u    == task.units[k]
              tr   == task.cd.tracks[k]
              data == tr.type # "AUDIO"
              src  == IF tr.file # NULL THEN tr.file ELSE tr.shared
          IN  /\ u.track = k
              /\ IF (data /\ APP.option.only = "audio") \/ (~data /\ APP.option.only = "data")
                 THEN u.kind = "empty"
                 ELSE IF data \/ APP.option.enc = "RAW"
                 THEN u.kind = "copy" /\ u.src = src
                      /\ u.args = << tr.byteStart, tr.byteSize >>
                 ELSE u.kind = "encode" /\ u.src = src
                      /\ u.args = << tr.byteStart, tr.byteStart + tr.byteSize - 1 >>

\* A task that ended well with a copied data track and an encoded audio track
C28_Witness ==
    /\ task.state = "resolved" /\ Len(task.units) = 2
    /\ task.units[1].kind = "copy" /\ task.units[1].args = << 0, 176400 >>
    /\ task.units[2].kind = "encode" /\ task.units[2].args = << 176400, 199999 >>

(* C26: once the queue of the encode action has started, the process       *)
(* comes to its exit with every input taken from the queue and counted by  *)
(* qnow, whatever fails on the way.                                        *)
C26_EveryInputProcessed ==
    (APP.state = "queue") ~>
        (APP.state = "exited" /\ queue = << >> /\ qnow = Len(ELOG.inputs))

\* The input positions that have an entry in a log
Keys(map) == { e.k : e \in map }

(* C37: whenever qnow advances, ELOG.success plus the sizes of ELOG.skip   *)
(* and ELOG.error equals the new qnow, the positions in the two logs are   *)
(* positions of completed inputs and no position is in both, and no input  *)
(* whose cue file was written (counted in success) is in the error log.    *)
C37_EveryInputCountedOnce ==
    [][ qnow' # qnow =>
          /\ ELOG'.success + Cardinality(ELOG'.skip) + Cardinality(ELOG'.error) = qnow'
          /\ Cardinality(Keys(ELOG'.skip)) = Cardinality(ELOG'.skip)
          /\ Cardinality(Keys(ELOG'.error)) = Cardinality(ELOG'.error)
          /\ Keys(ELOG'.skip) \cap Keys(ELOG'.error) = {}
          /\ Keys(ELOG'.skip) \cup Keys(ELOG'.error) \subseteq 0..(qnow' - 1)
          /\ \A d \in 1..Len(disk') :
                disk'[d].cue # NoCue => disk'[d].by \notin Keys(ELOG'.error) \cup Keys(ELOG'.skip)
      ]_vars

\* A queue of two inputs came to its end with one success and one error
C37_Witness ==
    /\ APP.state = "exited" /\ qnow = 2
    /\ ELOG.success = 1 /\ Cardinality(ELOG.error) = 1 /\ ELOG.skip = {}

(* C33: the output directory of every input that is in the error log has   *)
(* been renamed as failed.                                                 *)
C33_FailedDirRenamed ==
    \A d \in 1..Len(disk) : disk[d].by \in Keys(ELOG.error) => disk[d].failed

\* The places of the data tracks in a track list
DataTracks(trs) == { i \in 1..Len(trs) : trs[i].type # "AUDIO" }

(* C34: on a loaded instance CD_SIZE is the sum of byteSize over all       *)
(* tracks, and the data size the info action prints (CD_SIZE minus         *)
(* getAudioSize()) is the sum of byteSize over the tracks that are not     *)
(* of type AUDIO.                                                          *)
C34_SizeIsSumOfTracks ==
    /\ pc = "loaded" => CD_SIZE = SumByteSize(tracks, 1..Len(tracks))
    /\ (pc = "loaded" /\ info.state # "none") =>
          /\ info.size = CD_SIZE
          /\ info.data = SumByteSize(tracks, DataTracks(tracks))

\* The info action printed the sizes of a disc with a data track and an
\* audio track in one file
C34_Witness ==
    /\ pc = "loaded" /\ info.state = "shown" /\ Len(tracks) = 2
    /\ info.size = 200000 /\ info.data = 176400 /\ info.audio = 23600

(* C38: every FilePartSHA1 call of the info action is made for the track   *)
(* at its place in the list with that track's own source file (file, or    *)
(* shared) and the bytes byteStart .. byteStart + byteSize - 1, and the    *)
(* action does not break off, whatever the numbers of the tracks are.      *)
C38_ShaOfOwnFile ==
    /\ info.state # "crashed"
    /\ pc = "loaded" =>
          \A i \in 1..Len(info.sha) :
             LET tr == tracks[i] IN
             /\ info.sha[i].track = i
             /\ info.sha[i].src = (IF tr.file # NULL THEN tr.file ELSE tr.shared)
             /\ info.sha[i].range = << tr.byteStart, tr.byteStart + tr.byteSize - 1 >>

\* First words of comment lines, and first words that are no keyword of the parser
CommentWords == { "REM", "rem", "REMARK", ";" }
OtherWords   == { "FLAGS", "CATALOG" }

(* C39: a line that is a comment (REM, ;) or starts with none of TITLE,    *)
(* PERFORMER, FILE, TRACK, INDEX, PREGAP is accepted: the load goes on     *)
(* without error, and track list, open track, pending file, disc title     *)
(* and disc performer stay as they are.                                    *)
C39_OtherLinesChangeNothing ==
    [][ (LineStep /\ line'.kw \in CommentWords \cup OtherWords) =>
            /\ pc' = "parsing" /\ err' = NoError
            /\ UNCHANGED << CD_TITLE, CD_ARTIST, tracks, opentrack, openfile >>
      ]_vars

\* A line of another keyword was read inside a track, after a title, a
\* performer and a file were set
C39_Witness ==
    /\ pc = "parsing" /\ line.kw \in OtherWords
    /\ Len(tracks) = 1 /\ opentrack = 1 /\ tracks[1].indexes # << >>
    /\ CD_TITLE # "" /\ CD_ARTIST # ""

(* C32: on a loaded disc the byteStart of a track that shares a file is    *)
(* the sector size of the type of the track that owns the file times the   *)
(* frame count of the index the shared track lists first, hence a multiple *)
(* of that sector size; it is not the product with the sector size of the  *)
(* shared track's own type when the two sizes differ and the frame count   *)
(* is not 0.                                                               *)
C32_ScaledByOwnerSector ==
    loaded =>
        \A i \in 1..Len(tracks) :
            tracks[i].file = NULL =>
                LET T      == tracks[OwnerOf(tracks, i)].type
                    frames == toFrames(tracks[i].indexes[1])
                IN  /\ tracks[i].byteStart = sectorsByType[T] * frames
                    /\ tracks[i].byteStart % sectorsByType[T] = 0
                    /\ (sectorsByType[T] # sectorsByType[tracks[i].type] /\ frames # 0) =>
                          tracks[i].byteStart # sectorsByType[tracks[i].type] * frames

\* A loaded disc whose AUDIO track shares the file of a MODE1/2048 track
C32_Witness ==
    /\ loaded /\ pc = "loaded" /\ Len(tracks) = 2
    /\ tracks[1].type = "MODE1/2048" /\ tracks[2].type = "AUDIO"
    /\ tracks[2].file = NULL /\ tracks[2].byteStart = 2048 * 75

\* What the layout pass writes into a track
LayoutFields(tr) == << tr.byteStart, tr.byteSize, tr.shared >>

\* The step just taken did some of the work of the layout pass: it asked
\* the directory, added to CD_SIZE or wrote a layout field of a track
LayoutWork ==
    \/ fs' # fs \/ queried' # queried \/ CD_SIZE' # CD_SIZE
    \/ \E i \in 1..Len(tracks') :
          LayoutFields(tracks'[i]) #
             (IF i <= Len(tracks) THEN LayoutFields(tracks[i]) ELSE LayoutFields(cdtrack))

(* C31: a line is handed to the parser only while no line of the call has  *)
(* failed, and a line that fails ends the call with its own line number;   *)
(* the work of the layout pass (directory queries, CD_SIZE, byteStart,     *)
(* byteSize, shared) is done only in the step after the last line, when no *)
(* line has failed, the track list is not empty and its last track has an  *)
(* INDEX 01; a missing-file error is thrown only there, so a sheet with a   *)
(* failing line never ends in the missing-file error.                      *)
C31_FailFastOrdered ==
    [][ /\ lineNo' > lineNo => (pc = "parsing" /\ err = NoError)
        /\ (lineNo' > lineNo /\ pc' = "failed") =>
              /\ err'.line = lineNo' /\ err'.kind \notin { "FileMissing", "NoTracks", "None" }
              /\ ~LayoutWork
        /\ LayoutWork =>
              /\ pc = "parsing" /\ err = NoError /\ lineNo' = lineNo
              /\ Len(tracks) > 0
              /\ \E k \in 1..Len(tracks[Len(tracks)].indexes) :
                    tracks[Len(tracks)].indexes[k].no = 1
        /\ (err'.kind = "FileMissing" /\ err' # err) => LayoutWork
      ]_vars

\* The fourth line of a sheet failed after a file, a track and an index
\* were read: nothing of the layout pass was done
C31_Witness ==
    /\ pc = "failed" /\ lineNo = 4 /\ err.line = 4 /\ err.kind = "DupIndex"
    /\ Len(tracks) = 1 /\ tracks[1].file # NULL
    /\ queried = << >> /\ CD_SIZE = 0 /\ tracks[1].byteSize = 0

\* A loadCue call on an instance against the same call on a new instance:
\* what new cdinfos().loadCue(input) leaves for the lines the call has read
FreshOutcome ==
    loadCue([base |-> input.base, ext |-> input.ext, readable |-> input.readable,
             lines |-> sheet, dir |-> fs])

\* C35: a loadCue call that is let through ends as the same call on a new
\* instance ends: with the same error, or with the same tracks and disc fields
C35_ReloadAsFresh ==
    [][(pc = "parsing" /\ pc' # "parsing") =>
          \E f \in { FreshOutcome' } :
             /\ err' = f.err
             /\ pc' = "loaded" =>
                   /\ tracks' = f.tracks
                   /\ CD_TITLE' = f.CD_TITLE
                   /\ CD_ARTIST' = f.CD_ARTIST
                   /\ CD_FILE' = f.CD_FILE
                   /\ CD_SIZE' = f.CD_SIZE]_vars

\* C36: every INDEX line of the lines buildCueFileForCBAE returned for a
\* loaded disc carries a timestamp mm:ss:ff whose minutes, seconds and frames
\* are not negative, with seconds below 60 and frames below 75, whatever the
\* order of the indexes in the sheet
C36_IndexFieldsInRange ==
    \A j \in 1..Len(newcue) :
        newcue[j].kw = "INDEX" =>
            \E m \in 0..99, s \in 0..59, f \in 0..74 :
                newcue[j].time = pad2(m) \o ":" \o pad2(s) \o ":" \o pad2(f)

=============================================================================
